---- MODULE Spec2Model ----
(***************************************************************************)
(* Model of the bookkeeping core of tabuledge: src/utils/financials.js     *)
(* (computeBalances, incomeStatement, balanceSheet, trialBalanceRows) and  *)
(* src/utils/ratios.js (computeRatios); of the login flow of              *)
(* src/pages/LoginPage.js (handleSubmit) with the administrator's          *)
(* operations on a user record (AdminPanel); and of the handlers of        *)
(* src/pages/ChartOfAccounts.js, src/pages/JournalEntryPage.js and the     *)
(* RejectJournalModal component on the Firestore collections they write.   *)
(*                                                                         *)
(* JavaScript values are modelled as records [t, s, n]: t is the type tag, *)
(* s the text of a string, n the numeric payload.  JavaScript numbers are  *)
(* records [k, v]: k = "fin" (the integer v), "nan", or "inf" (v = 1 or    *)
(* -1).  Amounts are whole numbers, for which binary64 arithmetic is       *)
(* exact; time is counted in days since the epoch (a monotone rescaling of *)
(* the millisecond values Date.getTime() returns).                         *)
(***************************************************************************)
EXTENDS Integers, Sequences, FiniteSets, TLC

VARIABLES accounts, ledgerEntries, from, to, accMap, trial, pc,
          raw, ratios, income, sheet, user, sess, eventLogs, attempts,
          db, page, heap, returned

vars == <<accounts, ledgerEntries, from, to, accMap, trial, pc, raw, ratios,
          income, sheet, user, sess, eventLogs, attempts, db, page, heap,
          returned>>

\* The variables of the bookkeeping core and those of the login flow
bookVars == <<accounts, ledgerEntries, from, to, accMap, trial, pc, raw,
              ratios, income, sheet>>
loginVars == <<user, sess, eventLogs, attempts>>
\* The document store with the state of the page working on it, and the
\* object heap of a caller of computeBalances with the maps returned to it
pageVars == <<db, page>>
heapVars == <<heap, returned>>

-----------------------------------------------------------------------------
(* JavaScript numbers *)

Fin(i) == [k |-> "fin", v |-> i]
NaN == [k |-> "nan", v |-> 0]
PosInf == [k |-> "inf", v |-> 1]
NegInf == [k |-> "inf", v |-> -1]

IsNaN(a) == a.k = "nan"
IsFinite(a) == a.k = "fin"

\* a + b
Add(a, b) ==
  IF IsNaN(a) \/ IsNaN(b) THEN NaN
  ELSE IF a.k = "inf" /\ b.k = "inf" THEN (IF a.v = b.v THEN a ELSE NaN)
  ELSE IF a.k = "inf" THEN a
  ELSE IF b.k = "inf" THEN b
  ELSE Fin(a.v + b.v)

\* -a
Neg(a) == IF IsNaN(a) THEN NaN ELSE [k |-> a.k, v |-> 0 - a.v]

\* a - b
Sub(a, b) == Add(a, Neg(b))

\* a < b (false when either is NaN)
Lt(a, b) ==
  /\ ~IsNaN(a) /\ ~IsNaN(b)
  /\ \/ a.k = "fin" /\ b.k = "fin" /\ a.v < b.v
     \/ a = NegInf /\ b # NegInf
     \/ b = PosInf /\ a # PosInf

\* a > b
Gt(a, b) == Lt(b, a)

\* Math.max(a, b)
MathMax(a, b) ==
  IF IsNaN(a) \/ IsNaN(b) THEN NaN
  ELSE IF Lt(a, b) THEN b ELSE a

-----------------------------------------------------------------------------
(* JavaScript values as they are stored in a document field *)

Undefined == [t |-> "undefined", s |-> "", n |-> NaN]
Null == [t |-> "null", s |-> "", n |-> Fin(0)]
Num(i) == [t |-> "number", s |-> "", n |-> Fin(i)]
NumNaN == [t |-> "number", s |-> "", n |-> NaN]
NumInf == [t |-> "number", s |-> "", n |-> PosInf]
\* the value that holds the number a
NumVal(a) == [t |-> "number", s |-> "", n |-> a]
Str(x) == [t |-> "string", s |-> x, n |-> NaN]
\* a Firestore Timestamp: an object whose toDate() is the Date at day d
Timestamp(d) == [t |-> "timestamp", s |-> "", n |-> Fin(d)]

\* StringToNumber on the strings of the model: Number("") is 0, a numeral is
\* its value, any other text is NaN.
StringToNumber(x) ==
  CASE x = "" -> Fin(0)
    [] x = "0" -> Fin(0)
    [] x = "1" -> Fin(1)
    [] x = "2" -> Fin(2)
    [] x = "3" -> Fin(3)
    [] OTHER -> NaN

\* Date.parse on the strings of the model, in days since the epoch; NaN for
\* text that is no date.
DateParse(x) ==
  CASE x = "1969-12-31" -> Fin(-1)
    [] x = "1970-01-01" -> Fin(0)
    [] x = "1970-01-02" -> Fin(1)
    [] x = "1970-01-03" -> Fin(2)
    [] x = "1970-01-04" -> Fin(3)
    [] OTHER -> NaN

\* ToBoolean(x): the truthiness that || and ?: test
Truthy(x) ==
  CASE x.t = "undefined" -> FALSE
    [] x.t = "null" -> FALSE
    [] x.t = "number" -> ~IsNaN(x.n) /\ x.n # Fin(0)
    [] x.t = "string" -> x.s # ""
    [] OTHER -> TRUE

\* Number(x)
ToNumber(x) ==
  CASE x.t = "undefined" -> NaN
    [] x.t = "null" -> Fin(0)
    [] x.t = "number" -> x.n
    [] x.t = "string" -> StringToNumber(x.s)
    [] OTHER -> NaN

\* Number(x || 0)
NumberOrZero(x) == IF Truthy(x) THEN ToNumber(x) ELSE Fin(0)

\* String(x) for the numbers and strings of the model
JsString(x) ==
  CASE x.t = "string" -> x
    [] x = Num(1) -> Str("1")
    [] x = Num(2) -> Str("2")
    [] x = Num(3) -> Str("3")
    [] OTHER -> Str("?")

\* String.prototype.toLowerCase on the strings of the model
ToLowerCase(x) ==
  CASE x = "Asset" -> "asset"
    [] x = "ASSET" -> "asset"
    [] x = "Liability" -> "liability"
    [] x = "Equity" -> "equity"
    [] x = "Revenue" -> "revenue"
    [] x = "Expense" -> "expense"
    [] x = "Debit" -> "debit"
    [] x = "Credit" -> "credit"
    [] x = "CREDIT" -> "credit"
    [] x = "Cash" -> "cash"
    [] x = "Inventory" -> "inventory"
    [] x = "Merchandise INVENTORY" -> "merchandise inventory"
    [] OTHER -> x

-----------------------------------------------------------------------------
(* src/utils/financials.js *)

\* An account document: category and normalSide are strings, "" standing for
\* an absent field (the code reads both through `|| ""`).
normalizeAccount(a) ==
  [id |-> a.id, category |-> a.category, subcategory |-> a.subcategory,
   normalSide |-> a.normalSide, initialBalance |-> a.initialBalance,
   type |-> ToLowerCase(a.category),
   number |-> IF Truthy(a.number) THEN JsString(a.number) ELSE Str("")]

\* Mutant: the normal side is not looked at, every account is debit-normal
isDebitNormal_AlwaysDebit(account) == TRUE

\* Mutant: the category decides first, the explicit side only for the
\* categories that are not debit-normal by default
isDebitNormal_CategoryFirst(account) ==
  LET side == ToLowerCase(account.normalSide)
      cat == ToLowerCase(account.category)
  IN IF cat = "asset" \/ cat = "expense" THEN TRUE
     ELSE side = "debit"

isDebitNormal(account) ==
  LET side == ToLowerCase(account.normalSide)
      cat == ToLowerCase(account.category)
  IN IF side = "debit" THEN TRUE
     ELSE IF side = "credit" THEN FALSE
     ELSE cat = "asset" \/ cat = "expense"

\* new Date(x).getTime() for the window bounds the callers pass
DateGetTime(x) ==
  CASE x.t = "string" -> DateParse(x.s)
    [] x.t = "number" -> x.n
    [] x.t = "null" -> Fin(0)
    [] OTHER -> NaN

normalizeRange(f, t) ==
  [fromMs |-> IF Truthy(f) THEN DateGetTime(f) ELSE NegInf,
   toMs |-> IF Truthy(t) THEN DateGetTime(t) ELSE PosInf]

\* Mutant: an entry without a usable date is treated as the latest possible
\* date instead of the earliest
pickWhen_FallbackLatest(e) ==
  IF e.date.t = "timestamp" THEN e.date.n
  ELSE IF e.createdAt.t = "timestamp" THEN e.createdAt.n
  ELSE IF e.date.t = "string" /\ ~IsNaN(DateParse(e.date.s))
    THEN DateParse(e.date.s)
  ELSE IF e.createdAt.t = "string" /\ ~IsNaN(DateParse(e.createdAt.s))
    THEN DateParse(e.createdAt.s)
  ELSE PosInf

\* The effective date of a ledger entry
pickWhen(e) ==
  IF e.date.t = "timestamp" THEN e.date.n
  ELSE IF e.createdAt.t = "timestamp" THEN e.createdAt.n
  ELSE IF e.date.t = "string" /\ ~IsNaN(DateParse(e.date.s))
    THEN DateParse(e.date.s)
  ELSE IF e.createdAt.t = "string" /\ ~IsNaN(DateParse(e.createdAt.s))
    THEN DateParse(e.createdAt.s)
  ELSE Fin(0)

\* Map.prototype.set on a map kept as the sequence of its entries in
\* insertion order: a key already present keeps its place.
MapHas(m, key) == \E i \in 1..Len(m) : m[i].key = key
MapSet(m, key, val) ==
  IF MapHas(m, key)
  THEN [i \in 1..Len(m) |->
          IF m[i].key = key THEN [key |-> key, val |-> val] ELSE m[i]]
  ELSE Append(m, [key |-> key, val |-> val])
MapGet(m, key) == (CHOOSE i \in 1..Len(m) : m[i].key = key)

\* The record computeBalances creates for one account
initialRecord(a) ==
  [account |-> a, debitTotal |-> Fin(0), creditTotal |-> Fin(0),
   begin |-> NumberOrZero(a.initialBalance),
   end |-> NumberOrZero(a.initialBalance)]

RECURSIVE buildAccMap(_, _)
buildAccMap(accs, n) ==
  IF n = 0 THEN <<>>
  ELSE MapSet(buildAccMap(accs, n - 1), accs[n].id, initialRecord(accs[n]))

\* Mutant: the upper bound of the window is not tested
outsideRange_NoUpperBound(when, range) == Lt(when, range.fromMs)

\* Mutant: the bounds are exclusive
outsideRange_Exclusive(when, range) ==
  ~Gt(when, range.fromMs) \/ ~Lt(when, range.toMs)

\* Whether the loop skips an entry for its date
outsideRange(when, range) == Lt(when, range.fromMs) \/ Gt(when, range.toMs)

\* Mutant: the ending balance restarts from the beginning balance at every
\* entry instead of accumulating
postEntry_RestartsFromBegin(m, e) ==
  LET i == MapGet(m, e.accountId)
      rec == m[i].val
      d == NumberOrZero(e.debit)
      c == NumberOrZero(e.credit)
      newEnd == IF isDebitNormal(rec.account)
                THEN Sub(Add(rec.begin, d), c)
                ELSE Sub(Add(rec.begin, c), d)
  IN [m EXCEPT ![i].val =
        [rec EXCEPT !.debitTotal = Add(rec.debitTotal, d),
                    !.creditTotal = Add(rec.creditTotal, c),
                    !.end = newEnd]]

\* The body of the loop for an entry of a known account inside the window
postEntry(m, e) ==
  LET i == MapGet(m, e.accountId)
      rec == m[i].val
      d == NumberOrZero(e.debit)
      c == NumberOrZero(e.credit)
      newEnd == IF isDebitNormal(rec.account)
                THEN Sub(Add(rec.end, d), c)
                ELSE Sub(Add(rec.end, c), d)
  IN [m EXCEPT ![i].val =
        [rec EXCEPT !.debitTotal = Add(rec.debitTotal, d),
                    !.creditTotal = Add(rec.creditTotal, c),
                    !.end = newEnd]]

\* Mutant: an entry of an unknown account opens a record for it
applyEntry_OpensUnknown(m, e, range) ==
  IF outsideRange(pickWhen(e), range) THEN m
  ELSE IF ~MapHas(m, e.accountId)
    THEN Append(m, [key |-> e.accountId,
                    val |-> [account |-> e.accountId,
                             debitTotal |-> NumberOrZero(e.debit),
                             creditTotal |-> NumberOrZero(e.credit),
                             begin |-> Fin(0), end |-> Fin(0)]])
  ELSE postEntry(m, e)

\* One iteration of the loop over the ledger entries
applyEntry(m, e, range) ==
  IF outsideRange(pickWhen(e), range) THEN m
  ELSE IF ~MapHas(m, e.accountId) THEN m
  ELSE postEntry(m, e)

RECURSIVE foldEntries(_, _, _, _)
foldEntries(m, entries, n, range) ==
  IF n = 0 THEN m
  ELSE applyEntry(foldEntries(m, entries, n - 1, range), entries[n], range)

computeBalances(accs, entries, f, t) ==
  LET range == normalizeRange(f, t)
      normalized == [i \in 1..Len(accs) |-> normalizeAccount(accs[i])]
  IN foldEntries(buildAccMap(normalized, Len(normalized)), entries,
                 Len(entries), range)

\* Number(end || 0) on the ending balance of a record
endAmount(rec) ==
  IF rec.end = Fin(0) \/ IsNaN(rec.end) THEN Fin(0) ELSE rec.end

\* String.prototype.includes("inventory") on the lower-cased subcategories
\* of the model
includesInventory(sub) == sub \in {"inventory", "merchandise inventory"}

\* Mutant: the subcategory is compared as stored, without lower-casing
lineTest_CaseSensitive(rec, line) ==
  LET cat == ToLowerCase(rec.account.category)
      sub == rec.account.subcategory
  IN CASE line = "revenue" -> cat = "revenue"
       [] line = "expenses" -> cat = "expense"
       [] line = "assets" -> cat = "asset"
       [] line = "inventory" -> cat = "asset" /\ includesInventory(sub)
       [] line = "liabilities" -> cat = "liability"
       [] line = "equity" -> cat = "equity"

\* Mutant: equity accounts are counted as revenue
lineTest_EquityIsRevenue(rec, line) ==
  LET cat == ToLowerCase(rec.account.category)
      sub == ToLowerCase(rec.account.subcategory)
  IN CASE line = "revenue" -> cat = "revenue" \/ cat = "equity"
       [] line = "expenses" -> cat = "expense"
       [] line = "assets" -> cat = "asset"
       [] line = "inventory" -> cat = "asset" /\ includesInventory(sub)
       [] line = "liabilities" -> cat = "liability"
       [] line = "equity" -> cat = "equity"

\* The tests by which the loops of incomeStatement and balanceSheet decide
\* whether a record is added to a line
lineTest(rec, line) ==
  LET cat == ToLowerCase(rec.account.category)
      sub == ToLowerCase(rec.account.subcategory)
  IN CASE line = "revenue" -> cat = "revenue"
       [] line = "expenses" -> cat = "expense"
       [] line = "assets" -> cat = "asset"
       [] line = "inventory" -> cat = "asset" /\ includesInventory(sub)
       [] line = "liabilities" -> cat = "liability"
       [] line = "equity" -> cat = "equity"

\* The running total of one line over the first n records of the map
RECURSIVE accumulate(_, _, _)
accumulate(m, n, line) ==
  IF n = 0 THEN Fin(0)
  ELSE LET sofar == accumulate(m, n - 1, line)
       IN IF lineTest(m[n].val, line) THEN Add(sofar, endAmount(m[n].val))
          ELSE sofar

\* Mutant: net income adds the expenses instead of subtracting them
incomeStatement_AddsExpenses(m) ==
  LET revenue == accumulate(m, Len(m), "revenue")
      expenses == accumulate(m, Len(m), "expenses")
  IN [revenue |-> revenue, expenses |-> expenses,
      netIncome |-> Add(revenue, expenses)]

incomeStatement(m) ==
  LET revenue == accumulate(m, Len(m), "revenue")
      expenses == accumulate(m, Len(m), "expenses")
  IN [revenue |-> revenue, expenses |-> expenses,
      netIncome |-> Sub(revenue, expenses)]

balanceSheet(m, retainedEarningsOpening, periodNetIncome) ==
  LET assets == accumulate(m, Len(m), "assets")
      liabilities == accumulate(m, Len(m), "liabilities")
      equity == accumulate(m, Len(m), "equity")
      retainedEarnings == Add(NumberOrZero(retainedEarningsOpening),
                              NumberOrZero(periodNetIncome))
  IN [currentAssets |-> assets,
      inventory |-> accumulate(m, Len(m), "inventory"),
      currentLiabilities |-> liabilities,
      totalLiabilities |-> liabilities,
      totalAssets |-> assets,
      totalEquity |-> Add(equity, retainedEarnings)]

\* Mutant: the normal side is not looked at, a positive balance is a debit
trialRow_IgnoresSide(rec) ==
  LET val == IF rec.end = Fin(0) \/ IsNaN(rec.end) THEN Fin(0) ELSE rec.end
  IN [account |-> rec.account,
      debit |-> MathMax(val, Fin(0)),
      credit |-> MathMax(Neg(val), Fin(0))]

\* Mutant: the balance is entered on the normal side of the account, with
\* its sign
trialRow_KeepsSign(rec) ==
  LET debitNormal == isDebitNormal(rec.account)
      val == IF rec.end = Fin(0) \/ IsNaN(rec.end) THEN Fin(0) ELSE rec.end
  IN [account |-> rec.account,
      debit |-> IF debitNormal THEN val ELSE Fin(0),
      credit |-> IF debitNormal THEN Fin(0) ELSE val]

\* One row of the trial balance
trialRow(rec) ==
  LET debitNormal == isDebitNormal(rec.account)
      val == IF rec.end = Fin(0) \/ IsNaN(rec.end) THEN Fin(0) ELSE rec.end
  IN [account |-> rec.account,
      debit |-> IF debitNormal THEN MathMax(val, Fin(0))
                ELSE MathMax(Neg(val), Fin(0)),
      credit |-> IF debitNormal THEN MathMax(Neg(val), Fin(0))
                 ELSE MathMax(val, Fin(0))]

\* Mutant: the last row is left out of the totals
sumField_SkipsLast(rows, n, side) ==
  IF n = 0 THEN Fin(0)
  ELSE LET RECURSIVE upTo(_)
           upTo(k) ==
             IF k = 0 THEN Fin(0)
             ELSE Add(upTo(k - 1),
                      IF side = "debit" THEN rows[k].debit
                      ELSE rows[k].credit)
       IN upTo(n - 1)

RECURSIVE sumField(_, _, _)
sumField(rows, n, side) ==
  IF n = 0 THEN Fin(0)
  ELSE Add(sumField(rows, n - 1, side),
           IF side = "debit" THEN rows[n].debit ELSE rows[n].credit)

trialBalanceRows(m) ==
  LET rows == [i \in 1..Len(m) |-> trialRow(m[i].val)]
  IN [rows |-> rows,
      totalD |-> sumField(rows, Len(rows), "debit"),
      totalC |-> sumField(rows, Len(rows), "credit")]

-----------------------------------------------------------------------------
(* src/utils/ratios.js *)

\* A ratio value: null, the quotient num/den of two finite numbers (den # 0),
\* or a plain number (den = 1)
NullValue == [kind |-> "null", num |-> Fin(0), den |-> 1]
Quotient(n, d) == [kind |-> "quotient", num |-> Fin(n), den |-> d]
PlainNumber(a) == [kind |-> "number", num |-> a, den |-> 1]

\* Mutant: the denominator is not tested for zero, so the quotient is what
\* the division gives: NaN for 0/0, an infinity otherwise
safeDivide_NoZeroCheck(numerator, denominator) ==
  IF ~IsFinite(numerator) \/ ~IsFinite(denominator) THEN NullValue
  ELSE IF denominator.v = 0
    THEN PlainNumber(IF numerator.v = 0 THEN NaN
                     ELSE IF numerator.v > 0 THEN PosInf ELSE NegInf)
  ELSE Quotient(numerator.v, denominator.v)

safeDivide(numerator, denominator) ==
  IF ~IsFinite(numerator) \/ ~IsFinite(denominator) \/ denominator.v = 0
  THEN NullValue
  ELSE Quotient(numerator.v, denominator.v)

\* value == null || !Number.isFinite(value)
NullOrNotFinite(value) == value.kind = "null" \/ ~IsFinite(value.num)

Abs(i) == IF i < 0 THEN 0 - i ELSE i
Pow10(digits) == IF digits = 1 THEN 10 ELSE 100

\* (n/d * scale).toFixed(digits): the decimal numeral of the quotient,
\* rounded to the given number of digits
toFixed(n, d, scale, digits) ==
  LET a == Abs(n) * scale * Pow10(digits)
      b == Abs(d)
      k == (2 * a + b) \div (2 * b)
      whole == k \div Pow10(digits)
      frac == k % Pow10(digits)
      sign == IF (n < 0 /\ d > 0) \/ (n > 0 /\ d < 0) THEN "-" ELSE ""
      pad == IF digits = 2 /\ frac < 10 THEN "0" ELSE ""
  IN sign \o ToString(whole) \o "." \o pad \o ToString(frac)

formatRatio(value) ==
  IF NullOrNotFinite(value) THEN "N/A"
  ELSE toFixed(value.num.v, value.den, 1, 2) \o "x"

formatPercent(value) ==
  IF NullOrNotFinite(value) THEN "N/A"
  ELSE toFixed(value.num.v, value.den, 100, 1) \o "%"

formatMoney(value) ==
  IF NullOrNotFinite(value) THEN "N/A"
  ELSE toFixed(value.num.v, value.den, 1, 2)

\* value >= p/q and value <= p/q for a finite value (den may be negative)
AtLeast(value, p, q) ==
  IF value.den > 0 THEN value.num.v * q >= p * value.den
  ELSE value.num.v * q <= p * value.den
AtMost(value, p, q) ==
  IF value.den > 0 THEN value.num.v * q <= p * value.den
  ELSE value.num.v * q >= p * value.den

\* Mutant: the thresholds are exclusive
bandHigherIsBetter_Exclusive(value, goodMin, warnMin) ==
  IF NullOrNotFinite(value) THEN "warning"
  ELSE IF ~AtMost(value, goodMin[1], goodMin[2]) THEN "good"
  ELSE IF ~AtMost(value, warnMin[1], warnMin[2]) THEN "warning"
  ELSE "bad"

\* The thresholds are passed as fractions <<p, q>>
bandHigherIsBetter(value, goodMin, warnMin) ==
  IF NullOrNotFinite(value) THEN "warning"
  ELSE IF AtLeast(value, goodMin[1], goodMin[2]) THEN "good"
  ELSE IF AtLeast(value, warnMin[1], warnMin[2]) THEN "warning"
  ELSE "bad"

bandLowerIsBetter(value, goodMax, warnMax) ==
  IF NullOrNotFinite(value) THEN "warning"
  ELSE IF AtMost(value, goodMax[1], goodMax[2]) THEN "good"
  ELSE IF AtMost(value, warnMax[1], warnMax[2]) THEN "warning"
  ELSE "bad"

\* Mutant: a working capital of zero is good
workingStatus_ZeroIsGood(workingCapital) ==
  IF ~Lt(workingCapital, Fin(0)) /\ ~IsNaN(workingCapital) THEN "good"
  ELSE IF Lt(workingCapital, Fin(0)) THEN "bad"
  ELSE "warning"

\* workingCapital > 0 ? "good" : workingCapital < 0 ? "bad" : "warning"
workingStatus(workingCapital) ==
  IF Gt(workingCapital, Fin(0)) THEN "good"
  ELSE IF Lt(workingCapital, Fin(0)) THEN "bad"
  ELSE "warning"

\* Mutant: the supplied value is tested for truthiness, so a supplied 0 is
\* replaced by the subtraction
quickAssetsOf_Truthy(r, currentAssets, inventory) ==
  IF Truthy(r.quickAssets)
  THEN ToNumber(r.quickAssets)
  ELSE Sub(currentAssets, inventory)

\* raw.quickAssets != null ? Number(raw.quickAssets) : currentAssets - inventory
quickAssetsOf(r, currentAssets, inventory) ==
  IF r.quickAssets.t \notin {"null", "undefined"}
  THEN ToNumber(r.quickAssets)
  ELSE Sub(currentAssets, inventory)

Result(key, label, value, formatted, status) ==
  [key |-> key, label |-> label, value |-> value, formatted |-> formatted,
   status |-> status]

\* The six results, in the order of the returned array (the constant
\* formula text of each result is left out)
computeRatios(r) ==
  LET currentAssets == NumberOrZero(r.currentAssets)
      inventory == NumberOrZero(r.inventory)
      currentLiabilities == NumberOrZero(r.currentLiabilities)
      totalLiabilities == NumberOrZero(r.totalLiabilities)
      totalEquity == NumberOrZero(r.totalEquity)
      totalAssets == NumberOrZero(r.totalAssets)
      netIncome == NumberOrZero(r.netIncome)
      revenue == NumberOrZero(r.revenue)
      quickAssets == quickAssetsOf(r, currentAssets, inventory)
      currentRatioVal == safeDivide(currentAssets, currentLiabilities)
      quickRatioVal == safeDivide(quickAssets, currentLiabilities)
      debtEquityVal == safeDivide(totalLiabilities, totalEquity)
      netMarginVal == safeDivide(netIncome, revenue)
      roaVal == safeDivide(netIncome, totalAssets)
      workingCapital == PlainNumber(Sub(currentAssets, currentLiabilities))
  IN << Result("currentRatio", "Current Ratio", currentRatioVal,
               formatRatio(currentRatioVal),
               bandHigherIsBetter(currentRatioVal, <<2, 1>>, <<3, 2>>)),
        Result("quickRatio", "Quick Ratio", quickRatioVal,
               formatRatio(quickRatioVal),
               bandHigherIsBetter(quickRatioVal, <<1, 1>>, <<7, 10>>)),
        Result("debtToEquity", "Debt-to-Equity", debtEquityVal,
               formatRatio(debtEquityVal),
               bandLowerIsBetter(debtEquityVal, <<1, 1>>, <<2, 1>>)),
        Result("netMargin", "Net Profit Margin", netMarginVal,
               formatPercent(netMarginVal),
               bandHigherIsBetter(netMarginVal, <<15, 100>>, <<5, 100>>)),
        Result("returnOnAssets", "Return on Assets", roaVal,
               formatPercent(roaVal),
               bandHigherIsBetter(roaVal, <<10, 100>>, <<3, 100>>)),
        Result("workingCapital", "Working Capital", workingCapital,
               formatMoney(workingCapital),
               workingStatus(workingCapital.num)) >>

-----------------------------------------------------------------------------
(* Inputs *)

\* Bound on the number of ledger entries handed to computeBalances
MaxEntries == 2

SeqsUpTo(S, n) == UNION {[1..k -> S] : k \in 0..n}

AccountIds == {"A", "B"}

Account(id, cat, side, init) ==
  [id |-> id, category |-> cat, subcategory |-> "", normalSide |-> side,
   initialBalance |-> init, number |-> Num(1)]

Entry(id, d, c, date, createdAt) ==
  [accountId |-> id, debit |-> d, credit |-> c, date |-> date,
   createdAt |-> createdAt]

\* Account collections: at most one account per id (ids are document ids),
\* in either order.
AccountLists(U) ==
  {s \in SeqsUpTo(U, Cardinality(AccountIds)) :
     \A i, j \in 1..Len(s) : i # j => s[i].id # s[j].id}

Day1 == Str("1970-01-02")
Day2 == Str("1970-01-03")
Day3 == Str("1970-01-04")

\* Family 1: well-typed amounts on accounts of both normal sides
AmountAccounts ==
  {Account(id, cat, "", init) :
     id \in AccountIds, cat \in {"Asset", "Liability"},
     init \in {Num(0), Num(1)}}
AmountPairs == {<<Num(1), Num(0)>>, <<Num(0), Num(1)>>, <<Num(1), Num(1)>>}
AmountEntries ==
  {Entry(id, a[1], a[2], date, Undefined) :
     id \in AccountIds, a \in AmountPairs, date \in {Day1, Day3}}
AmountWindows == {<<Null, Day2>>, <<Day2, Null>>}

AmountInputs ==
  /\ accounts \in AccountLists(AmountAccounts)
  /\ ledgerEntries \in SeqsUpTo(AmountEntries, MaxEntries)
  /\ \E w \in AmountWindows : from = w[1] /\ to = w[2]

\* Family 2: one account, entries that differ in how their date is stored
DayM1 == Str("1969-12-31")
DateVals ==
  {Undefined, Timestamp(1), Timestamp(3), Day1, Day3, Str("not a date")}
DateAccounts == {<<Account("A", "Asset", "", Num(0))>>}
DateEntries ==
  {Entry("A", Num(1), Num(0), date, createdAt) :
     date \in DateVals, createdAt \in DateVals}

DateInputs ==
  /\ accounts \in DateAccounts
  /\ ledgerEntries \in SeqsUpTo(DateEntries, MaxEntries)
  /\ from \in {Null, Day1, Day2}
  /\ to \in {Undefined, DayM1, Day1}

\* Family 3: one account, amounts as a document may hold them
RawAmounts ==
  {Undefined, Null, Num(0), Num(2), Str(""), Str("2"), Str("abc"), NumNaN}
CoerceEntries ==
  {Entry("A", d, c, Day1, Undefined) : d \in RawAmounts, c \in RawAmounts}

CoerceInputs ==
  /\ accounts \in {<<Account("A", "Asset", "", init)>> : init \in RawAmounts}
  /\ ledgerEntries \in SeqsUpTo(CoerceEntries, MaxEntries)
  /\ from = Null
  /\ to = Null

\* Family 4: accounts of every category, with subcategories and explicit
\* normal sides; the window the dashboard uses (no lower bound, today)
StatementKinds ==
  {<<"Asset", "Cash", "">>, <<"Asset", "Merchandise INVENTORY", "">>,
   <<"Liability", "Inventory", "">>, <<"Equity", "", "">>,
   <<"Revenue", "", "">>, <<"Expense", "", "">>,
   <<"Asset", "", "Credit">>, <<"Liability", "", "Debit">>}
StatementAccounts ==
  {[id |-> id, category |-> k[1], subcategory |-> k[2], normalSide |-> k[3],
    initialBalance |-> init, number |-> Num(1)] :
     id \in AccountIds, k \in StatementKinds, init \in {Num(0), Num(1)}}
\* Collections of at most one account per id, in the order of the ids
StatementLists ==
  {<<>>} \cup {<<a>> : a \in StatementAccounts}
    \cup {<<a, b>> : a \in {x \in StatementAccounts : x.id = "A"},
                     b \in {x \in StatementAccounts : x.id = "B"}}
StatementEntries ==
  {Entry(id, a[1], a[2], Day1, Undefined) :
     id \in AccountIds, a \in {<<Num(1), Num(0)>>, <<Num(0), Num(1)>>}}
  \cup {Entry("A", Num(1), Num(0), Day3, Undefined)}

StatementInputs ==
  /\ accounts \in StatementLists
  /\ ledgerEntries \in SeqsUpTo(StatementEntries, MaxEntries)
  /\ from = Null
  /\ to = Day2

NoTrial == [rows |-> <<>>, totalD |-> Fin(0), totalC |-> Fin(0)]
NoIncome == [revenue |-> Fin(0), expenses |-> Fin(0), netIncome |-> Fin(0)]
NoSheet ==
  [retainedEarningsOpening |-> Null, periodNetIncome |-> Null,
   value |-> balanceSheet(<<>>, Null, Null)]

\* The totals object handed to computeRatios
Totals(ca, inv, cl, tl, te, ta, ni, rev, qa) ==
  [currentAssets |-> ca, inventory |-> inv, currentLiabilities |-> cl,
   totalLiabilities |-> tl, totalEquity |-> te, totalAssets |-> ta,
   netIncome |-> ni, revenue |-> rev, quickAssets |-> qa]

IdleRaw ==
  Totals(Num(1), Num(1), Num(1), Num(1), Num(1), Num(1), Num(1), Num(1),
         Undefined)

\* Field values of a totals object: numbers that reach every threshold
\* (3/2, 7/10, 15/100, 5/100, 10/100, 3/100), and values that are no
\* finite number
TotalNumbers == {Num(i) : i \in {-1, 0, 1, 2, 3, 7, 10, 15, 100}}
TotalVals == TotalNumbers \cup {Undefined, Str("abc"), NumInf, NumNaN}

\* Liquidity inputs vary, the others are 1
LiquidityTotals ==
  {Totals(ca, inv, cl, Num(1), Num(1), Num(1), Num(1), Num(1), qa) :
     ca \in TotalVals, inv \in {Num(0), Num(1), Str("abc")},
     cl \in TotalVals, qa \in {Undefined, Null, Num(0), Num(7), NumInf}}
\* Solvency inputs vary
SolvencyTotals ==
  {Totals(Num(1), Num(1), Num(1), tl, te, Num(1), Num(1), Num(1), Undefined) :
     tl \in TotalVals, te \in TotalVals}
\* Profitability inputs vary
ProfitTotals ==
  {Totals(Num(1), Num(1), Num(1), Num(1), Num(1), ta, ni, rev, Undefined) :
     ta \in TotalVals, ni \in TotalVals, rev \in TotalVals}

\* The login page is not in use
Sessions == {"s1", "s2"}
UserDoc(failed, active, suspended, days) ==
  [failedAttempts |-> failed, active |-> active, suspended |-> suspended,
   passwordDays |-> days]
\* A browser session on the login page: pc is the await handleSubmit is
\* suspended at, failedAttempts the value read into userData, at the route
IdleSession ==
  [pc |-> "idle", email |-> "", password |-> "", failedAttempts |-> 0,
   error |-> "", signedIn |-> FALSE, passwordExpirySoon |-> FALSE,
   at |-> "/"]
NobodyLogsIn ==
  /\ user = UserDoc(0, TRUE, FALSE, 0)
  /\ sess = [s \in Sessions |-> IdleSession]
  /\ eventLogs = 0
  /\ attempts = 0

\* The Firestore collections the pages of the model write to
EmptyDb == [accounts |-> <<>>, journalEntries |-> <<>>,
            notifications |-> <<>>, errorMessages |-> <<>>]
\* No page of the model is open and no caller holds objects
NoPageOpen ==
  /\ db = EmptyDb
  /\ page = [name |-> "none"]
  /\ heap = <<>>
  /\ returned = <<>>

InitRatios ==
  /\ raw \in LiquidityTotals \cup SolvencyTotals \cup ProfitTotals
  /\ ratios = <<>>
  /\ accounts = <<>>
  /\ ledgerEntries = <<>>
  /\ from = Null
  /\ to = Null
  /\ accMap = <<>>
  /\ trial = NoTrial
  /\ income = NoIncome
  /\ sheet = NoSheet
  /\ pc = "totals"
  /\ NobodyLogsIn
  /\ NoPageOpen

\* Nothing computed yet, the ratio engine idle
NothingComputed ==
  /\ accMap = <<>>
  /\ trial = NoTrial
  /\ pc = "start"
  /\ raw = IdleRaw
  /\ ratios = <<>>
  /\ income = NoIncome
  /\ sheet = NoSheet
  /\ NobodyLogsIn
  /\ NoPageOpen

Init == AmountInputs /\ NothingComputed

InitDates == DateInputs /\ NothingComputed

InitCoerce == CoerceInputs /\ NothingComputed

InitStatements == StatementInputs /\ NothingComputed

\* A caller runs computeBalances on the snapshot it loaded
RunComputeBalances ==
  /\ pc = "start"
  /\ accMap' = computeBalances(accounts, ledgerEntries, from, to)
  /\ pc' = "balances"
  /\ UNCHANGED <<accounts, ledgerEntries, from, to, trial, raw, ratios,
                 income, sheet>>
  /\ UNCHANGED <<loginVars, pageVars, heapVars>>

\* A caller runs trialBalanceRows on the balances
RunTrialBalance ==
  /\ pc = "balances"
  /\ trial' = trialBalanceRows(accMap)
  /\ pc' = "trial"
  /\ UNCHANGED <<accounts, ledgerEntries, from, to, accMap, raw, ratios,
                 income, sheet>>
  /\ UNCHANGED <<loginVars, pageVars, heapVars>>

Next == RunComputeBalances \/ RunTrialBalance

Spec == Init /\ [][Next]_vars

\* A caller runs computeRatios on the totals it extracted
RunComputeRatios ==
  /\ pc = "totals"
  /\ ratios' = computeRatios(raw)
  /\ pc' = "ratios"
  /\ UNCHANGED <<accounts, ledgerEntries, from, to, accMap, trial, raw,
                 income, sheet>>
  /\ UNCHANGED <<loginVars, pageVars, heapVars>>

NextRatios == RunComputeRatios

SpecRatios == InitRatios /\ [][NextRatios]_vars

SpecDates == InitDates /\ [][Next]_vars

SpecCoerce == InitCoerce /\ [][Next]_vars

\* The dashboard runs incomeStatement on the balances
RunIncomeStatement ==
  /\ pc = "balances"
  /\ income' = incomeStatement(accMap)
  /\ pc' = "income"
  /\ UNCHANGED <<accounts, ledgerEntries, from, to, accMap, trial, raw,
                 ratios, sheet>>
  /\ UNCHANGED <<loginVars, pageVars, heapVars>>

\* A caller runs balanceSheet on the balances with the net income of the
\* period (the dashboard passes the opening retained earnings 0)
RunBalanceSheet ==
  /\ pc = "income"
  /\ \E opening \in {Num(0), Num(1)} :
       sheet' = [retainedEarningsOpening |-> opening,
                 periodNetIncome |-> NumVal(income.netIncome),
                 value |-> balanceSheet(accMap, opening,
                                        NumVal(income.netIncome))]
  /\ pc' = "sheet"
  /\ UNCHANGED <<accounts, ledgerEntries, from, to, accMap, trial, raw,
                 ratios, income>>
  /\ UNCHANGED <<loginVars, pageVars, heapVars>>

NextStatements ==
  RunComputeBalances \/ RunTrialBalance \/ RunIncomeStatement
    \/ RunBalanceSheet

SpecStatements == InitStatements /\ [][NextStatements]_vars

-----------------------------------------------------------------------------
(* src/pages/LoginPage.js and the user operations of AdminPanel *)

\* Bound on the number of login forms submitted
MaxAttempts == 4

\* failedAttempts >= 3 locks; the password expires 90 days after it was
\* set, with a warning during the last 3 days
LockAfter == 3
ExpiryDays == 90
WarnDays == 3

\* Days since the password was set
PasswordDays == {0, 88, 90}

InitLogin ==
  /\ user \in {UserDoc(0, TRUE, FALSE, days) : days \in PasswordDays}
  /\ sess = [s \in Sessions |-> IdleSession]
  /\ eventLogs = 0
  /\ attempts = 0
  /\ accounts = <<>>
  /\ ledgerEntries = <<>>
  /\ from = Null
  /\ to = Null
  /\ accMap = <<>>
  /\ trial = NoTrial
  /\ income = NoIncome
  /\ sheet = NoSheet
  /\ pc = "login"
  /\ raw = IdleRaw
  /\ ratios = <<>>
  /\ NoPageOpen

\* handleSubmit ends with the given error (or none); finally clears loading
Ended(s, error) == [sess EXCEPT ![s].pc = "done", ![s].error = error]

\* Step 3 of handleSubmit on the value read into userData: the lock check
AfterLockCheck(s, failed) ==
  IF failed >= LockAfter
  THEN [sess EXCEPT ![s].pc = "done", ![s].error = "locked",
                    ![s].failedAttempts = failed]
  ELSE [sess EXCEPT ![s].pc = "signIn", ![s].failedAttempts = failed]

\* The form is submitted: handleSubmit clears the error and queries the user
Submit(s) ==
  /\ sess[s].pc \in {"idle", "done"}
  /\ sess[s].at = "/"
  /\ attempts < MaxAttempts
  /\ \E who \in {<<"user", "right">>, <<"user", "wrong">>,
                 <<"nobody", "wrong">>} :
       sess' = [sess EXCEPT ![s].pc = "getDocs", ![s].email = who[1],
                            ![s].password = who[2], ![s].error = ""]
  /\ attempts' = attempts + 1
  /\ UNCHANGED <<user, eventLogs>>
  /\ UNCHANGED <<bookVars, pageVars, heapVars>>

\* getDocs returns: steps 1 to 3, up to the next await.  now is where the
\* clock stands with respect to the suspension dates.
ReadUser(s) ==
  /\ sess[s].pc = "getDocs"
  /\ \E now \in {"before", "within", "after"} :
       sess' =
         IF sess[s].email = "nobody" THEN Ended(s, "invalid")
         ELSE IF ~user.active
           THEN IF user.suspended
                THEN CASE now = "within" -> Ended(s, "suspended")
                       [] now = "after" ->
                            [sess EXCEPT ![s].pc = "reactivate",
                               ![s].failedAttempts = user.failedAttempts]
                       [] OTHER -> AfterLockCheck(s, user.failedAttempts)
                ELSE Ended(s, "deactivated")
         ELSE AfterLockCheck(s, user.failedAttempts)
  /\ UNCHANGED <<user, eventLogs, attempts>>
  /\ UNCHANGED <<bookVars, pageVars, heapVars>>

\* The suspension has passed: the record is re-activated, then step 3
Reactivate(s) ==
  /\ sess[s].pc = "reactivate"
  /\ user' = [user EXCEPT !.active = TRUE, !.suspended = FALSE]
  /\ sess' = AfterLockCheck(s, sess[s].failedAttempts)
  /\ UNCHANGED <<eventLogs, attempts>>
  /\ UNCHANGED <<bookVars, pageVars, heapVars>>

\* Step 4: signInWithEmailAndPassword resolves or rejects
SignIn(s) ==
  /\ sess[s].pc = "signIn"
  /\ sess' = IF sess[s].password = "right"
             THEN [sess EXCEPT ![s].pc = "resetAttempts",
                               ![s].signedIn = TRUE]
             ELSE [sess EXCEPT ![s].pc = "countFailure"]
  /\ UNCHANGED <<user, eventLogs, attempts>>
  /\ UNCHANGED <<bookVars, pageVars, heapVars>>

\* Step 5: the successful login resets the failed attempts
ResetAttempts(s) ==
  /\ sess[s].pc = "resetAttempts"
  /\ user' = [user EXCEPT !.failedAttempts = 0]
  /\ sess' = [sess EXCEPT ![s].pc = "addEvent"]
  /\ UNCHANGED <<eventLogs, attempts>>
  /\ UNCHANGED <<bookVars, pageVars, heapVars>>

\* Steps 6 and 7: the login event is logged, then the password's age decides
AddEvent(s) ==
  /\ sess[s].pc = "addEvent"
  /\ eventLogs' = eventLogs + 1
  /\ LET daysUntilExpiry == ExpiryDays - user.passwordDays
     IN sess' =
          IF daysUntilExpiry <= WarnDays /\ daysUntilExpiry > 0
          THEN [sess EXCEPT ![s].pc = "done",
                            ![s].passwordExpirySoon = TRUE]
          ELSE IF daysUntilExpiry <= 0 THEN Ended(s, "expired")
          ELSE [sess EXCEPT ![s].pc = "done", ![s].at = "/dashboard"]
  /\ UNCHANGED <<user, attempts>>
  /\ UNCHANGED <<bookVars, pageVars, heapVars>>

\* The timer of the expiry warning fires
WarningTimer(s) ==
  /\ sess[s].passwordExpirySoon
  /\ sess[s].at = "/"
  /\ sess' = [sess EXCEPT ![s].at = "/dashboard"]
  /\ UNCHANGED <<user, eventLogs, attempts>>
  /\ UNCHANGED <<bookVars, pageVars, heapVars>>

\* Step 8: the failed login writes the attempts it read, plus one
CountFailure(s) ==
  /\ sess[s].pc = "countFailure"
  /\ LET newFailedAttempts == sess[s].failedAttempts + 1
     IN /\ user' = [user EXCEPT !.failedAttempts = newFailedAttempts]
        /\ sess' = Ended(s, IF newFailedAttempts >= LockAfter THEN "locked"
                            ELSE "invalid password")
  /\ UNCHANGED <<eventLogs, attempts>>
  /\ UNCHANGED <<bookVars, pageVars, heapVars>>

\* AdminPanel: unlockUser
unlockUser ==
  /\ user' = [user EXCEPT !.failedAttempts = 0, !.active = TRUE]
  /\ UNCHANGED <<sess, eventLogs, attempts>>
  /\ UNCHANGED <<bookVars, pageVars, heapVars>>

\* AdminPanel: toggleActive(id, currentStatus), currentStatus being the
\* status in the list the panel loaded
toggleActive ==
  /\ \E currentStatus \in BOOLEAN : user' = [user EXCEPT !.active = ~currentStatus]
  /\ UNCHANGED <<sess, eventLogs, attempts>>
  /\ UNCHANGED <<bookVars, pageVars, heapVars>>

\* AdminPanel: suspendUser with both dates chosen
suspendUser ==
  /\ user' = [user EXCEPT !.active = FALSE, !.suspended = TRUE]
  /\ UNCHANGED <<sess, eventLogs, attempts>>
  /\ UNCHANGED <<bookVars, pageVars, heapVars>>

NextLogin ==
  \/ \E s \in Sessions :
       Submit(s) \/ ReadUser(s) \/ Reactivate(s) \/ SignIn(s)
         \/ ResetAttempts(s) \/ AddEvent(s) \/ WarningTimer(s)
         \/ CountFailure(s)
  \/ unlockUser \/ toggleActive \/ suspendUser

SpecLogin == InitLogin /\ [][NextLogin]_vars

-----------------------------------------------------------------------------
(* Reference definitions the claims are stated with *)

Computed == pc \in {"balances", "trial", "income", "sheet"}

RemoveAt(s, i) == [j \in 1..(Len(s) - 1) |-> IF j < i THEN s[j] ELSE s[j + 1]]

Perms(n) == {p \in [1..n -> 1..n] : \A i, j \in 1..n : i # j => p[i] # p[j]}

KnownIds == {accounts[i].id : i \in 1..Len(accounts)}

\* A window bound is absent when it is null, undefined or empty
Absent(b) == b.t \in {"null", "undefined"} \/ b = Str("")

\* The day of a window bound that is a date
BoundDay(b) == DateParse(b.s).v

\* The closed window [from, to] on days, an absent bound being unbounded
InWindow(d) ==
  /\ Absent(from) \/ BoundDay(from) <= d
  /\ Absent(to) \/ d <= BoundDay(to)

\* A date field that resolves to a day: a Timestamp, or text that is a date
Resolvable(x) ==
  x.t = "timestamp" \/ (x.t = "string" /\ DateParse(x.s).k = "fin")
ResolvedDay(x) == IF x.t = "timestamp" THEN x.n.v ELSE DateParse(x.s).v

\* The fallback chain: explicit date, else creation timestamp, else epoch 0
ChainDay(e) ==
  IF Resolvable(e.date) THEN ResolvedDay(e.date)
  ELSE IF Resolvable(e.createdAt) THEN ResolvedDay(e.createdAt)
  ELSE 0

\* An amount that is a finite number, and its value
IsAmount(x) == x.t = "number" /\ x.n.k = "fin"
WellTyped ==
  /\ \A i \in 1..Len(accounts) : IsAmount(accounts[i].initialBalance)
  /\ \A i \in 1..Len(ledgerEntries) :
       IsAmount(ledgerEntries[i].debit) /\ IsAmount(ledgerEntries[i].credit)

\* Normal side by the rule of the data model
DebitSide(a) ==
  IF a.normalSide \in {"Debit", "Credit"} THEN a.normalSide = "Debit"
  ELSE a.category \in {"Asset", "Expense"}

\* Sum of the debit (or credit) amounts of the entries of account id whose
\* day, days[i] for entry i, is in the window
RECURSIVE SumInWindow(_, _, _, _, _)
SumInWindow(entries, days, n, id, side) ==
  IF n = 0 THEN 0
  ELSE SumInWindow(entries, days, n - 1, id, side)
       + (IF entries[n].accountId = id /\ InWindow(days[n])
          THEN (IF side = "debit" THEN entries[n].debit.n.v
                ELSE entries[n].credit.n.v)
          ELSE 0)

\* Sum of the debit (or credit) amounts of all the entries
RECURSIVE SumAll(_, _, _)
SumAll(entries, n, side) ==
  IF n = 0 THEN 0
  ELSE SumAll(entries, n - 1, side)
       + (IF side = "debit" THEN entries[n].debit.n.v
          ELSE entries[n].credit.n.v)

\* Sum of the initial balances of the accounts of one normal side
RECURSIVE SumInitial(_, _, _)
SumInitial(accs, n, debitSide) ==
  IF n = 0 THEN 0
  ELSE SumInitial(accs, n - 1, debitSide)
       + (IF DebitSide(accs[n]) = debitSide
          THEN accs[n].initialBalance.n.v ELSE 0)

AllKnown ==
  \A i \in 1..Len(ledgerEntries) : ledgerEntries[i].accountId \in KnownIds

\* The days of the entries by the fallback chain
ChainDays == [i \in 1..Len(ledgerEntries) |-> ChainDay(ledgerEntries[i])]

\* The days of the entries as the loop of computeBalances reads them (the
\* effective dates it filters by)
WhenDays == [i \in 1..Len(ledgerEntries) |-> pickWhen(ledgerEntries[i]).v]

\* The record of account id in a balance map
RecordOf(m, id) == m[CHOOSE i \in 1..Len(m) : m[i].key = id].val

\* The account with the given id
AccountOf(id) == accounts[CHOOSE j \in 1..Len(accounts) : accounts[j].id = id]

InWindowDebits ==
  LET n == Len(ledgerEntries)
  IN SumInWindow(ledgerEntries, WhenDays, n, "A", "debit")
     + SumInWindow(ledgerEntries, WhenDays, n, "B", "debit")
InWindowCredits ==
  LET n == Len(ledgerEntries)
  IN SumInWindow(ledgerEntries, WhenDays, n, "A", "credit")
     + SumInWindow(ledgerEntries, WhenDays, n, "B", "credit")

-----------------------------------------------------------------------------
(* Claims *)

\* C1 (as stated): whenever every transaction references a known account and
\* the debit amounts sum to the same total as the credit amounts, the trial
\* balance of computeBalances has total debit equal to total credit.
C1_AsStated ==
  (pc = "trial" /\ WellTyped /\ AllKnown
     /\ SumAll(ledgerEntries, Len(ledgerEntries), "debit")
        = SumAll(ledgerEntries, Len(ledgerEntries), "credit"))
  => trial.totalD = trial.totalC

\* C1 (amended): whenever every transaction references a known account, the
\* debit amounts of the transactions whose effective date is inside the
\* window sum to the same total as their credit amounts, and the initial
\* balances of the debit-normal accounts sum to the same total as those of
\* the credit-normal accounts, the trial balance has total debit equal to
\* total credit.
C1_TrialBalanceBalances ==
  (pc = "trial" /\ WellTyped /\ AllKnown
     /\ InWindowDebits = InWindowCredits
     /\ SumInitial(accounts, Len(accounts), TRUE)
        = SumInitial(accounts, Len(accounts), FALSE))
  => trial.totalD = trial.totalC

C1_Witness ==
  /\ pc = "trial" /\ WellTyped /\ AllKnown
  /\ InWindowDebits = InWindowCredits
  /\ SumInitial(accounts, Len(accounts), TRUE)
     = SumInitial(accounts, Len(accounts), FALSE)
  /\ SumInitial(accounts, Len(accounts), TRUE) > 0
  /\ InWindowDebits > 0
  /\ \E i \in 1..Len(ledgerEntries) : ~InWindow(WhenDays[i])
  /\ trial.totalD # Fin(0)

C3_OutsideWindowNoEffect ==
  Computed =>
    \A i \in 1..Len(ledgerEntries) :
      (\/ ~Absent(from) /\ WhenDays[i] < BoundDay(from)
       \/ ~Absent(to) /\ WhenDays[i] > BoundDay(to))
      => computeBalances(accounts, RemoveAt(ledgerEntries, i), from, to)
           = accMap

C3_Witness ==
  /\ Computed /\ Len(ledgerEntries) = 2
  /\ ~Absent(from) /\ ~Absent(to)
  /\ WhenDays[1] > BoundDay(to)
  /\ WhenDays[2] = BoundDay(to) /\ BoundDay(from) <= WhenDays[2]
  /\ RecordOf(accMap, "A").debitTotal = Fin(1)

\* C4: both bounds are inclusive and an absent bound is unbounded: a
\* transaction of a known account whose effective date d satisfies
\* (from absent or from <= d) and (to absent or d <= to) is added to the
\* totals of its account.
C4_InclusiveBounds ==
  Computed =>
    \A i \in 1..Len(ledgerEntries) :
      LET e == ledgerEntries[i]
          without == computeBalances(accounts, RemoveAt(ledgerEntries, i),
                                     from, to)
      IN (e.accountId \in KnownIds /\ InWindow(WhenDays[i]))
         => /\ RecordOf(accMap, e.accountId).debitTotal
                 = Add(RecordOf(without, e.accountId).debitTotal,
                       Fin(e.debit.n.v))
            /\ RecordOf(accMap, e.accountId).creditTotal
                 = Add(RecordOf(without, e.accountId).creditTotal,
                       Fin(e.credit.n.v))

C4_Witness ==
  /\ Computed /\ Len(ledgerEntries) = 2
  /\ ~Absent(from) /\ ~Absent(to)
  /\ WhenDays[1] = BoundDay(from) /\ WhenDays[2] = BoundDay(to)
  /\ RecordOf(accMap, "A").debitTotal = Fin(2)

\* C5: a transaction whose accountId matches no account changes nothing:
\* the map has exactly one record per known account id and no other key,
\* and it is the map computed from the list without that transaction.
C5_UnknownAccountDropped ==
  Computed =>
    /\ {accMap[i].key : i \in 1..Len(accMap)} = KnownIds
    /\ Len(accMap) = Cardinality(KnownIds)
    /\ \A i \in 1..Len(ledgerEntries) :
         ledgerEntries[i].accountId \notin KnownIds
         => computeBalances(accounts, RemoveAt(ledgerEntries, i), from, to)
              = accMap

C5_Witness ==
  /\ Computed /\ Len(ledgerEntries) = 2 /\ Len(accMap) = 1
  /\ ledgerEntries[1].accountId \notin KnownIds
  /\ ledgerEntries[1].debit = Num(1)
  /\ InWindow(WhenDays[1])
  /\ ledgerEntries[2].accountId \in KnownIds
  /\ accMap[1].val.debitTotal = Fin(1)

\* C6: in every record, begin is the initial balance of the account,
\* debitTotal and creditTotal are the sums of the debit and credit amounts
\* of the transactions of the account whose effective date is in the
\* window, and end is
\* begin + debitTotal - creditTotal for a debit-normal account and
\* begin + creditTotal - debitTotal for a credit-normal one.
C6_RecordContents ==
  (Computed /\ WellTyped) =>
    \A i \in 1..Len(accMap) :
      LET id == accMap[i].key
          r == accMap[i].val
          b == AccountOf(id).initialBalance.n.v
          D == SumInWindow(ledgerEntries, WhenDays, Len(ledgerEntries),
                           id, "debit")
          C == SumInWindow(ledgerEntries, WhenDays, Len(ledgerEntries),
                           id, "credit")
      IN /\ r.begin = Fin(b)
         /\ r.debitTotal = Fin(D)
         /\ r.creditTotal = Fin(C)
         /\ r.end = IF DebitSide(AccountOf(id)) THEN Fin(b + D - C)
                    ELSE Fin(b + C - D)

C6_Witness ==
  /\ Computed /\ WellTyped /\ Len(accMap) = 2
  /\ DebitSide(AccountOf("A")) /\ ~DebitSide(AccountOf("B"))
  /\ RecordOf(accMap, "A").begin = Fin(1)
  /\ RecordOf(accMap, "A").creditTotal = Fin(1)
  /\ RecordOf(accMap, "A").end = Fin(0)
  /\ RecordOf(accMap, "B").begin = Fin(0)
  /\ RecordOf(accMap, "B").debitTotal = Fin(1)
  /\ RecordOf(accMap, "B").end = Fin(-1)

\* C7: the effective date follows the fallback chain (explicit date, else
\* creation timestamp, else epoch 0): the totals of every record are the
\* sums over the transactions whose day by that chain is in the window.
C7_FallbackChain ==
  Computed =>
    \A i \in 1..Len(accMap) :
      /\ accMap[i].val.debitTotal
           = Fin(SumInWindow(ledgerEntries, ChainDays, Len(ledgerEntries),
                             accMap[i].key, "debit"))
      /\ accMap[i].val.creditTotal
           = Fin(SumInWindow(ledgerEntries, ChainDays, Len(ledgerEntries),
                             accMap[i].key, "credit"))

\* What a stored amount is worth by the rule "missing or invalid is zero"
AmountOrZero(x) ==
  IF x.t = "number" /\ x.n.k = "fin" THEN x.n.v
  ELSE IF x.t = "string" /\ StringToNumber(x.s).k = "fin"
    THEN StringToNumber(x.s).v
  ELSE 0

RECURSIVE SumOrZero(_, _, _, _)
SumOrZero(entries, n, id, side) ==
  IF n = 0 THEN 0
  ELSE SumOrZero(entries, n - 1, id, side)
       + (IF entries[n].accountId = id
          THEN AmountOrZero(IF side = "debit" THEN entries[n].debit
                            ELSE entries[n].credit)
          ELSE 0)

\* C10: a debit, credit or initial balance that is absent or is no valid
\* number counts as zero, and no total or balance becomes a non-number.
C10_InvalidCountsAsZero ==
  Computed =>
    \A i \in 1..Len(accMap) :
      LET id == accMap[i].key
          r == accMap[i].val
          b == AmountOrZero(AccountOf(id).initialBalance)
          D == SumOrZero(ledgerEntries, Len(ledgerEntries), id, "debit")
          C == SumOrZero(ledgerEntries, Len(ledgerEntries), id, "credit")
      IN /\ r.begin = Fin(b)
         /\ r.debitTotal = Fin(D)
         /\ r.creditTotal = Fin(C)
         /\ r.end = IF DebitSide(AccountOf(id)) THEN Fin(b + D - C)
                    ELSE Fin(b + C - D)

\* A denominator that is zero: the number 0, or a field left out (read as 0)
ZeroDenominator(x) == x = Num(0) \/ x = Undefined

\* The result for a ratio without a value
IsNotAvailable(result) ==
  /\ result.value = NullValue
  /\ result.formatted = "N/A"
  /\ result.status = "warning"

\* C8: each of the five quotient ratios has value null, formatted "N/A" and
\* status "warning" when its denominator is zero; currentLiabilities = 0
\* gives this for Current Ratio and Quick Ratio.
C8_ZeroDenominator ==
  pc = "ratios" =>
    /\ ZeroDenominator(raw.currentLiabilities)
         => IsNotAvailable(ratios[1]) /\ IsNotAvailable(ratios[2])
    /\ ZeroDenominator(raw.totalEquity) => IsNotAvailable(ratios[3])
    /\ ZeroDenominator(raw.revenue) => IsNotAvailable(ratios[4])
    /\ ZeroDenominator(raw.totalAssets) => IsNotAvailable(ratios[5])

C8_Witness ==
  /\ pc = "ratios"
  /\ raw.currentLiabilities = Num(0)
  /\ raw.currentAssets = Num(3)
  /\ raw.quickAssets = Num(7)
  /\ ratios[1].key = "currentRatio" /\ IsNotAvailable(ratios[1])
  /\ ratios[2].key = "quickRatio" /\ IsNotAvailable(ratios[2])
  /\ ratios[3].formatted = "1.00x"

\* A field value that is given and is no finite number
InvalidField(x) == Truthy(x) /\ ~IsFinite(ToNumber(x))

\* The fields result i is computed from
InputsOf(i) ==
  CASE i = 1 -> {raw.currentAssets, raw.currentLiabilities}
    [] i = 2 -> IF raw.quickAssets.t \in {"null", "undefined"}
                THEN {raw.currentAssets, raw.inventory, raw.currentLiabilities}
                ELSE {raw.quickAssets, raw.currentLiabilities}
    [] i = 3 -> {raw.totalLiabilities, raw.totalEquity}
    [] i = 4 -> {raw.netIncome, raw.revenue}
    [] i = 5 -> {raw.netIncome, raw.totalAssets}
    [] i = 6 -> {raw.currentAssets, raw.currentLiabilities}

\* C9: every one of the six results has a value that is null or a finite
\* number, and a result computed from invalid data has formatted "N/A" and
\* status "warning".
C9_NeverNaNOrInfinity ==
  pc = "ratios" =>
    \A i \in 1..6 :
      /\ ratios[i].value.kind = "null" \/ IsFinite(ratios[i].value.num)
      /\ (\E x \in InputsOf(i) : InvalidField(x))
           => ratios[i].formatted = "N/A" /\ ratios[i].status = "warning"

-----------------------------------------------------------------------------
(* Statements *)

\* Sum of the ending balances of the records whose account has one of the
\* given categories
RECURSIVE SumEnds(_, _, _)
SumEnds(m, n, cats) ==
  IF n = 0 THEN 0
  ELSE SumEnds(m, n - 1, cats)
       + (IF m[n].val.account.category \in cats THEN m[n].val.end.v ELSE 0)

\* Sum of the ending balances of the Asset records whose subcategory
\* contains "inventory" in some letter case
RECURSIVE SumInventory(_, _)
SumInventory(m, n) ==
  IF n = 0 THEN 0
  ELSE SumInventory(m, n - 1)
       + (IF /\ m[n].val.account.category = "Asset"
             /\ m[n].val.account.subcategory
                  \in {"Inventory", "Merchandise INVENTORY"}
          THEN m[n].val.end.v ELSE 0)

FiveCategories == {"Asset", "Liability", "Equity", "Revenue", "Expense"}

\* Every account has one of the five categories and the normal side of its
\* category
PlainAccounts ==
  \A i \in 1..Len(accounts) :
    /\ accounts[i].category \in FiveCategories
    /\ DebitSide(accounts[i]) = (accounts[i].category \in {"Asset", "Expense"})

BalanceSheetIdentity ==
  sheet.value.totalAssets
    = Add(sheet.value.totalLiabilities, sheet.value.totalEquity)

\* C11 (as stated): when every transaction references a known account and
\* the debit amounts sum to the same total as the credit amounts, the
\* balance sheet built with opening retained earnings 0 and the net income
\* of the income statement has totalAssets = totalLiabilities + totalEquity.
C11_AsStated ==
  (pc = "sheet" /\ sheet.retainedEarningsOpening = Num(0)
     /\ WellTyped /\ AllKnown
     /\ SumAll(ledgerEntries, Len(ledgerEntries), "debit")
        = SumAll(ledgerEntries, Len(ledgerEntries), "credit"))
  => BalanceSheetIdentity

\* C11 (amended): when moreover every account has one of the five
\* categories and the normal side of its category, the initial balances of
\* the debit-normal accounts sum to the same total as those of the
\* credit-normal accounts, and the debit amounts of the transactions whose
\* effective date is inside the window sum to the same total as their
\* credit amounts, the balance sheet has
\* totalAssets = totalLiabilities + totalEquity.
C11_BalanceSheetIdentity ==
  (pc = "sheet" /\ sheet.retainedEarningsOpening = Num(0)
     /\ WellTyped /\ AllKnown /\ PlainAccounts
     /\ InWindowDebits = InWindowCredits
     /\ SumInitial(accounts, Len(accounts), TRUE)
        = SumInitial(accounts, Len(accounts), FALSE))
  => BalanceSheetIdentity

C11_Witness ==
  /\ pc = "sheet" /\ sheet.retainedEarningsOpening = Num(0)
  /\ WellTyped /\ AllKnown /\ PlainAccounts
  /\ InWindowDebits = InWindowCredits
  /\ SumInitial(accounts, Len(accounts), TRUE)
     = SumInitial(accounts, Len(accounts), FALSE)
  /\ Len(accounts) = 2
  /\ {accounts[1].category, accounts[2].category} = {"Asset", "Revenue"}
  /\ income.netIncome = Fin(2)
  /\ sheet.value.totalAssets = Fin(2)
  /\ sheet.value.totalEquity = Fin(2)

\* The accounts of the model that are neither Revenue nor Expense accounts
OtherAccounts ==
  {a \in StatementAccounts : a.category \notin {"Revenue", "Expense"}}

IncomeOf(accs) ==
  incomeStatement(computeBalances(accs, ledgerEntries, from, to))

\* C12: incomeStatement returns revenue = the sum of the ending balances of
\* the Revenue accounts, expenses = that of the Expense accounts and
\* netIncome = revenue - expenses; removing, changing or adding an account
\* of another category leaves the three values unchanged.
C12_IncomeStatement ==
  pc = "income" =>
    /\ income.revenue = Fin(SumEnds(accMap, Len(accMap), {"Revenue"}))
    /\ income.expenses = Fin(SumEnds(accMap, Len(accMap), {"Expense"}))
    /\ income.netIncome
         = Fin(SumEnds(accMap, Len(accMap), {"Revenue"})
               - SumEnds(accMap, Len(accMap), {"Expense"}))
    /\ \A i \in 1..Len(accounts) :
         accounts[i] \in OtherAccounts
         => /\ IncomeOf(RemoveAt(accounts, i)) = income
            /\ \A b \in OtherAccounts :
                 b.id = accounts[i].id
                 => IncomeOf([accounts EXCEPT ![i] = b]) = income
    /\ \A b \in OtherAccounts :
         b.id \notin KnownIds => IncomeOf(Append(accounts, b)) = income

C12_Witness ==
  /\ pc = "income" /\ Len(accounts) = 2
  /\ accounts[1].category = "Revenue" /\ accounts[2].category = "Equity"
  /\ RecordOf(accMap, accounts[2].id).end = Fin(2)
  /\ income.revenue = Fin(2)
  /\ income.netIncome = Fin(2)

\* C13: balanceSheet returns currentAssets = totalAssets = the sum of the
\* Asset ending balances, currentLiabilities = totalLiabilities = the sum of
\* the Liability ending balances, inventory = the sum of the ending
\* balances of the Asset accounts whose subcategory contains "inventory" in
\* any letter case, and totalEquity = the sum of the Equity ending balances
\* + retainedEarningsOpening + periodNetIncome.
C13_BalanceSheet ==
  pc = "sheet" =>
    LET n == Len(accMap)
        v == sheet.value
    IN /\ v.currentAssets = Fin(SumEnds(accMap, n, {"Asset"}))
       /\ v.totalAssets = Fin(SumEnds(accMap, n, {"Asset"}))
       /\ v.currentLiabilities = Fin(SumEnds(accMap, n, {"Liability"}))
       /\ v.totalLiabilities = Fin(SumEnds(accMap, n, {"Liability"}))
       /\ v.inventory = Fin(SumInventory(accMap, n))
       /\ v.totalEquity
            = Fin(SumEnds(accMap, n, {"Equity"})
                  + sheet.retainedEarningsOpening.n.v
                  + sheet.periodNetIncome.n.v)

C13_Witness ==
  /\ pc = "sheet" /\ Len(accounts) = 2
  /\ sheet.retainedEarningsOpening = Num(1)
  /\ accounts[1].subcategory = "Merchandise INVENTORY"
  /\ accounts[2].subcategory = "Inventory"
  /\ sheet.value.inventory = Fin(2)
  /\ sheet.value.totalAssets = Fin(2)
  /\ sheet.value.totalLiabilities = Fin(1)
  /\ sheet.value.totalEquity = Fin(1)

-----------------------------------------------------------------------------
(* Normal side and trial balance *)

C15_RowSides ==
  pc = "trial" =>
    \A i \in 1..Len(trial.rows) :
      LET row == trial.rows[i]
          v == accMap[i].val.end.v
          debitNormal == DebitSide(AccountOf(accMap[i].key))
      IN /\ row.debit.k = "fin" /\ row.credit.k = "fin"
         /\ row.debit.v >= 0 /\ row.credit.v >= 0
         /\ row.debit.v = 0 \/ row.credit.v = 0
         /\ (debitNormal /\ v > 0) => row.debit.v = v
         /\ (debitNormal /\ v < 0) => row.credit.v = 0 - v
         /\ (~debitNormal /\ v > 0) => row.credit.v = v
         /\ (~debitNormal /\ v < 0) => row.debit.v = 0 - v

C15_Witness ==
  /\ pc = "trial" /\ Len(trial.rows) = 2
  /\ DebitSide(accounts[1]) /\ ~DebitSide(accounts[2])
  /\ accMap[1].val.end = Fin(-1) /\ accMap[2].val.end = Fin(-1)
  /\ trial.rows[1].credit = Fin(1) /\ trial.rows[1].debit = Fin(0)
  /\ trial.rows[2].debit = Fin(1) /\ trial.rows[2].credit = Fin(0)

\* Sum of the debit (or credit) entries of the rows
RECURSIVE SumRows(_, _, _)
SumRows(rows, n, side) ==
  IF n = 0 THEN 0
  ELSE SumRows(rows, n - 1, side)
       + (IF side = "debit" THEN rows[n].debit.v ELSE rows[n].credit.v)

OneRowPerAccount ==
  /\ Len(trial.rows) = Len(accMap)
  /\ \A i \in 1..Len(accMap) : trial.rows[i].account = accMap[i].val.account

-----------------------------------------------------------------------------
(* Ratio bands *)

\* n/d >= p/q and n/d <= p/q for a quotient value (d # 0, q > 0): the sign
\* of n/d - p/q is the sign of (n*q - p*d) * d
RatioAtLeast(value, p, q) ==
  (value.num.v * q - p * value.den) * value.den >= 0
RatioAtMost(value, p, q) ==
  (value.num.v * q - p * value.den) * value.den <= 0

HigherBand(value, gp, gq, wp, wq) ==
  IF RatioAtLeast(value, gp, gq) THEN "good"
  ELSE IF RatioAtLeast(value, wp, wq) THEN "warning"
  ELSE "bad"

LowerBand(value, gp, gq, wp, wq) ==
  IF RatioAtMost(value, gp, gq) THEN "good"
  ELSE IF RatioAtMost(value, wp, wq) THEN "warning"
  ELSE "bad"

\* The threshold table
BandOf(i, value) ==
  CASE i = 1 -> HigherBand(value, 2, 1, 15, 10)
    [] i = 2 -> HigherBand(value, 1, 1, 7, 10)
    [] i = 3 -> LowerBand(value, 1, 1, 2, 1)
    [] i = 4 -> HigherBand(value, 15, 100, 5, 100)
    [] i = 5 -> HigherBand(value, 10, 100, 3, 100)

\* C17: for every finite ratio value, negative values included, the status
\* follows the threshold table with inclusive thresholds: Current Ratio
\* >= 2.0 good, >= 1.5 warning, else bad; Quick Ratio >= 1.0 good, >= 0.7
\* warning, else bad; Debt-to-Equity <= 1.0 good, <= 2.0 warning, else bad;
\* Net Profit Margin >= 0.15 good, >= 0.05 warning, else bad; Return on
\* Assets >= 0.10 good, >= 0.03 warning, else bad.
C17_StatusBands ==
  pc = "ratios" =>
    \A i \in 1..5 :
      ratios[i].value.kind = "quotient"
      => ratios[i].status = BandOf(i, ratios[i].value)

C17_Witness ==
  /\ pc = "ratios"
  /\ raw.netIncome = Num(15) /\ raw.revenue = Num(100)
  /\ raw.totalAssets = Num(-1)
  /\ ratios[4].key = "netMargin" /\ ratios[4].value = Quotient(15, 100)
  /\ ratios[4].status = "good"
  /\ ratios[5].key = "returnOnAssets" /\ ratios[5].value = Quotient(15, -1)
  /\ ratios[5].status = "bad"

\* A totals field that is a finite number
FiniteField(x) == x.t = "number" /\ x.n.k = "fin"

\* C18: the Working Capital result has value
\* currentAssets - currentLiabilities and status good when that value is
\* > 0, bad when it is < 0 and warning when it is exactly 0.
C18_WorkingCapital ==
  (pc = "ratios" /\ FiniteField(raw.currentAssets)
     /\ FiniteField(raw.currentLiabilities))
  => LET wc == raw.currentAssets.n.v - raw.currentLiabilities.n.v
     IN /\ ratios[6].key = "workingCapital"
        /\ ratios[6].value = PlainNumber(Fin(wc))
        /\ ratios[6].status = IF wc > 0 THEN "good"
                              ELSE IF wc < 0 THEN "bad" ELSE "warning"

C18_Witness ==
  /\ pc = "ratios"
  /\ raw.currentAssets = Num(7) /\ raw.currentLiabilities = Num(7)
  /\ ratios[6].value = PlainNumber(Fin(0))
  /\ ratios[6].status = "warning"
  /\ ratios[6].formatted = "0.00"

\* C19: the Quick Ratio numerator is the supplied quickAssets whenever the
\* totals object carries one (a value that is neither null nor undefined),
\* and currentAssets - inventory otherwise; in both cases the value is that
\* numerator divided by currentLiabilities.
C19_QuickRatioNumerator ==
  (pc = "ratios" /\ FiniteField(raw.currentAssets)
     /\ FiniteField(raw.inventory) /\ FiniteField(raw.currentLiabilities)
     /\ raw.currentLiabilities # Num(0))
  => /\ FiniteField(raw.quickAssets)
          => ratios[2].value
               = Quotient(raw.quickAssets.n.v, raw.currentLiabilities.n.v)
     /\ raw.quickAssets \in {Null, Undefined}
          => ratios[2].value
               = Quotient(raw.currentAssets.n.v - raw.inventory.n.v,
                          raw.currentLiabilities.n.v)

C19_Witness ==
  /\ pc = "ratios"
  /\ raw.quickAssets = Num(0)
  /\ raw.currentAssets = Num(3) /\ raw.inventory = Num(1)
  /\ raw.currentLiabilities = Num(2)
  /\ ratios[2].key = "quickRatio"
  /\ ratios[2].value = Quotient(0, 2)
  /\ ratios[2].status = "bad"

-----------------------------------------------------------------------------
(* Login *)

\* C20: once the user's failedAttempts has reached 3 the account stays
\* locked until an administrator's unlock resets failedAttempts: no other
\* step brings failedAttempts below 3, and a login attempt that finds the
\* account locked does not go on to authentication.
C20_LockedUntilUnlock ==
  [][/\ (user.failedAttempts >= LockAfter
           /\ user'.failedAttempts < LockAfter) => unlockUser
     /\ \A s \in Sessions :
          (user.failedAttempts >= LockAfter /\ sess[s].pc = "getDocs")
          => sess'[s].pc # "signIn"]_vars

\* C21: a login attempt by a user whose password was set 90 or more days
\* ago never leaves the user signed in, never resets failedAttempts and
\* never records a login event; a submit that passes authentication ends
\* with the expired-password error.
C21_ExpiredPasswordRejected ==
  user.passwordDays >= ExpiryDays =>
    /\ eventLogs = 0
    /\ \A s \in Sessions :
         /\ ~sess[s].signedIn
         /\ sess[s].pc # "addEvent"
         /\ sess[s].at = "/"

\* C27: a login attempt for a user whose record has active = false never
\* reaches authentication, except through the re-activation that follows a
\* suspension with both dates, which sets active and clears both dates
\* before authentication is attempted.
C27_InactiveNeverAuthenticates ==
  [][\A s \in Sessions :
       /\ (sess[s].pc = "getDocs" /\ ~user.active)
            => sess'[s].pc \in {"getDocs", "done", "reactivate"}
       /\ (sess[s].pc = "getDocs" /\ sess'[s].pc = "reactivate")
            => ~user.active /\ user.suspended
       /\ (sess[s].pc = "reactivate" /\ sess'[s].pc # "reactivate")
            => user'.active /\ ~user'.suspended]_vars

\* C29: with concurrent login attempts the stored failedAttempts still
\* counts every failed authentication since the last reset: each failed
\* attempt raises the stored counter by one, and no password check is made
\* against the authentication service once the counter has reached 3.
C29_EveryFailureCounted ==
  [][\A s \in Sessions :
       /\ (sess[s].pc = "countFailure" /\ sess'[s].pc # "countFailure")
            => user'.failedAttempts = user.failedAttempts + 1
       /\ (sess[s].pc = "signIn" /\ sess'[s].pc # "signIn")
            => user.failedAttempts < LockAfter]_vars

-----------------------------------------------------------------------------
(* Entries without a date *)

\* Family 6: one account, entries with and without a usable date or
\* creation timestamp, windows with bounds before, at and after the epoch
Day0 == Str("1970-01-01")
UndatedEntries ==
  {Entry("A", Num(1), Num(0), date, createdAt) :
     date \in {Undefined, Str("not a date"), Day1},
     createdAt \in {Undefined, Str("not a date"), Timestamp(3)}}
UndatedInputs ==
  /\ accounts = <<Account("A", "Asset", "", Num(0))>>
  /\ ledgerEntries \in SeqsUpTo(UndatedEntries, MaxEntries)
  /\ from \in {Null, DayM1, Day1}
  /\ to \in {Undefined, DayM1, Day0, Day1}

InitUndated == UndatedInputs /\ NothingComputed

SpecUndated == InitUndated /\ [][Next]_vars

\* An entry with no resolvable explicit date and no resolvable creation
\* timestamp
Unresolved(e) == ~Resolvable(e.date) /\ ~Resolvable(e.createdAt)

\* C26: a transaction with no resolvable explicit date and no resolvable
\* creation timestamp is dated at epoch 0: it is counted in every window
\* that has no lower bound and whose upper bound is absent or not before
\* epoch 0, and it is excluded from every window whose lower bound is after
\* epoch 0.
C26_UnresolvedIsEpochZero ==
  Computed =>
    \A i \in 1..Len(ledgerEntries) :
      LET e == ledgerEntries[i]
          without == computeBalances(accounts, RemoveAt(ledgerEntries, i),
                                     from, to)
      IN (Unresolved(e) /\ e.accountId \in KnownIds) =>
           /\ (Absent(from) /\ (Absent(to) \/ BoundDay(to) >= 0))
                => /\ RecordOf(accMap, e.accountId).debitTotal
                        = Add(RecordOf(without, e.accountId).debitTotal,
                              Fin(e.debit.n.v))
                   /\ RecordOf(accMap, e.accountId).creditTotal
                        = Add(RecordOf(without, e.accountId).creditTotal,
                              Fin(e.credit.n.v))
           /\ (~Absent(from) /\ BoundDay(from) > 0) => without = accMap

C26_Witness ==
  /\ Computed /\ Len(ledgerEntries) = 2
  /\ ledgerEntries[1].date = Str("not a date")
  /\ ledgerEntries[1].createdAt = Undefined
  /\ ledgerEntries[2].date = Day1
  /\ Absent(from) /\ to = Day0
  /\ RecordOf(accMap, "A").debitTotal = Fin(1)

-----------------------------------------------------------------------------
(* computeBalances on the objects of its caller *)

\* The objects of a caller are kept in a heap, a sequence indexed by
\* address: an account or entry object is its record of fields, an array
\* the sequence of the addresses of its items, a Map the sequence of its
\* entries [key, val] with val the address of a balance record, and a
\* balance record holds the address of its account object.
MaxCalls == 2

\* A new object
Alloc(h, obj) == [heap |-> Append(h, obj), ref |-> Len(h) + 1]

\* Mutant: the fields are assigned on the account object that was passed
normalizeAccountAt_InPlace(h, a) ==
  [heap |-> [h EXCEPT ![a] = normalizeAccount(h[a])], ref |-> a]

\* { ...a, type, number }: a new object with the fields of a and the two
\* normalized ones
normalizeAccountAt(h, a) == Alloc(h, normalizeAccount(h[a]))

\* accounts.map(normalizeAccount) over the first n items
RECURSIVE mapNormalize(_, _, _)
mapNormalize(h, items, n) ==
  IF n = 0 THEN [heap |-> h, refs |-> <<>>]
  ELSE LET prev == mapNormalize(h, items, n - 1)
           one == normalizeAccountAt(prev.heap, items[n])
       IN [heap |-> one.heap, refs |-> Append(prev.refs, one.ref)]

\* accounts.forEach(a => accMap.set(a.id, {account: a, ...}))
RECURSIVE fillAccMap(_, _, _, _)
fillAccMap(h, mapRef, refs, n) ==
  IF n = 0 THEN h
  ELSE LET prev == fillAccMap(h, mapRef, refs, n - 1)
           a == refs[n]
           rec == Alloc(prev, [initialRecord(prev[a]) EXCEPT !.account = a])
       IN [rec.heap EXCEPT
             ![mapRef] = MapSet(rec.heap[mapRef], rec.heap[a].id, rec.ref)]

\* rec.debitTotal += d, rec.creditTotal += c and the new rec.end, written
\* on the record the map holds for the account of the entry
postEntryAt(h, mapRef, e) ==
  LET m == h[mapRef]
      r == m[MapGet(m, e.accountId)].val
      rec == h[r]
      posted == postEntry(<<[key |-> e.accountId,
                             val |-> [rec EXCEPT !.account = h[rec.account]]]>>,
                          e)[1].val
  IN [h EXCEPT ![r] = [posted EXCEPT !.account = rec.account]]

applyEntryAt(h, mapRef, eref, range) ==
  LET e == h[eref]
  IN IF outsideRange(pickWhen(e), range) THEN h
     ELSE IF ~MapHas(h[mapRef], e.accountId) THEN h
     ELSE postEntryAt(h, mapRef, e)

RECURSIVE foldEntriesAt(_, _, _, _, _)
foldEntriesAt(h, mapRef, erefs, n, range) ==
  IF n = 0 THEN h
  ELSE applyEntryAt(foldEntriesAt(h, mapRef, erefs, n - 1, range), mapRef,
                    erefs[n], range)

\* computeBalances called with the addresses of the two arrays: the heap
\* after the call and the address of the Map it returns
computeBalancesAt(h, accountsRef, ledgerRef, f, t) ==
  LET range == normalizeRange(f, t)
      mapped == mapNormalize(h, h[accountsRef], Len(h[accountsRef]))
      arr == Alloc(mapped.heap, mapped.refs)
      map == Alloc(arr.heap, <<>>)
      filled == fillAccMap(map.heap, map.ref, mapped.refs, Len(mapped.refs))
  IN [heap |-> foldEntriesAt(filled, map.ref, h[ledgerRef],
                             Len(h[ledgerRef]), range),
      ref |-> map.ref]

\* Family 5: the caller's objects.  The account objects are at the
\* addresses 1..Len(accounts), then the accounts array, the entry objects
\* and the array of the entries.
HeapAccounts ==
  {Account(id, cat, "", Num(1)) :
     id \in AccountIds, cat \in {"Asset", "Liability"}}
HeapEntries ==
  {Entry(id, Num(1), Num(0), Day1, Undefined) : id \in AccountIds}
    \cup {Entry(id, Num(0), Num(1), Day3, Undefined) : id \in AccountIds}
accountsRef == Len(accounts) + 1
ledgerRef == Len(accounts) + Len(ledgerEntries) + 2
LoadHeap(accs, entries) ==
  accs \o <<[i \in 1..Len(accs) |-> i]>> \o entries
       \o <<[i \in 1..Len(entries) |-> Len(accs) + 1 + i]>>

InitHeap ==
  /\ accounts \in AccountLists(HeapAccounts)
  /\ ledgerEntries \in SeqsUpTo(HeapEntries, MaxEntries)
  /\ from = Null
  /\ to = Day2
  /\ heap = LoadHeap(accounts, ledgerEntries)
  /\ returned = <<>>
  /\ accMap = <<>>
  /\ trial = NoTrial
  /\ pc = "start"
  /\ raw = IdleRaw
  /\ ratios = <<>>
  /\ income = NoIncome
  /\ sheet = NoSheet
  /\ NobodyLogsIn
  /\ db = EmptyDb
  /\ page = [name |-> "none"]

\* The caller calls computeBalances on its two arrays and keeps the Map
CallComputeBalances ==
  /\ Len(returned) < MaxCalls
  /\ LET call == computeBalancesAt(heap, accountsRef, ledgerRef, from, to)
     IN /\ heap' = call.heap
        /\ returned' = Append(returned, call.ref)
  /\ UNCHANGED <<bookVars, loginVars, pageVars>>

NextHeap == CallComputeBalances

SpecHeap == InitHeap /\ [][NextHeap]_vars

\* The map at an address as the value computeBalances describes it
Deref(h, mapRef) ==
  [i \in 1..Len(h[mapRef]) |->
     [key |-> h[mapRef][i].key,
      val |-> [h[h[mapRef][i].val] EXCEPT
                 !.account = h[h[h[mapRef][i].val].account]]]]

\* The objects a returned map is made of: the Map, its balance records and
\* their account objects
ObjectsOf(h, mapRef) ==
  {mapRef}
    \cup {h[mapRef][i].val : i \in 1..Len(h[mapRef])}
    \cup {h[h[mapRef][i].val].account : i \in 1..Len(h[mapRef])}

\* C25: computeBalances is a pure transform: it leaves the accounts
\* collection, every account record and every transaction record it was
\* given unchanged, and two calls with the same arguments return equal maps
\* that share no mutable record.
C25_PureTransform ==
  /\ Len(heap) >= ledgerRef
  /\ \A i \in 1..Len(accounts) : heap[i] = accounts[i]
  /\ heap[accountsRef] = [i \in 1..Len(accounts) |-> i]
  /\ \A i \in 1..Len(ledgerEntries) :
       heap[accountsRef + i] = ledgerEntries[i]
  /\ heap[ledgerRef] = [i \in 1..Len(ledgerEntries) |-> accountsRef + i]
  /\ \A i \in 1..Len(returned) :
       /\ Deref(heap, returned[i])
            = computeBalances(accounts, ledgerEntries, from, to)
       /\ ObjectsOf(heap, returned[i]) \cap (1..ledgerRef) = {}
  /\ \A i, j \in 1..Len(returned) :
       i # j =>
         /\ Deref(heap, returned[i]) = Deref(heap, returned[j])
         /\ ObjectsOf(heap, returned[i]) \cap ObjectsOf(heap, returned[j])
              = {}

C25_Witness ==
  /\ Len(returned) = 2
  /\ Len(accounts) = 2
  /\ Len(ledgerEntries) = 2
  /\ \E i \in 1..Len(heap[returned[1]]) :
       heap[heap[returned[1]][i].val].debitTotal = Fin(1)

-----------------------------------------------------------------------------
(* Chart of accounts: src/pages/ChartOfAccounts.js *)

\* Text is a sequence of characters; String.prototype.trim removes the
\* white space at both ends.
IsSpace(c) == c = " "
RECURSIVE TrimStart(_)
TrimStart(s) ==
  IF s # <<>> /\ IsSpace(Head(s)) THEN TrimStart(Tail(s)) ELSE s
RECURSIVE TrimEnd(_)
TrimEnd(s) ==
  IF s # <<>> /\ IsSpace(s[Len(s)])
  THEN TrimEnd(SubSeq(s, 1, Len(s) - 1))
  ELSE s
Trim(s) == TrimEnd(TrimStart(s))

\* The accounts collection holds at most MaxAccounts documents, and the
\* two sessions start at most MaxOps operations
MaxAccounts == 2
MaxOps == 2

\* What the administrator types: names (one with a trailing blank, one
\* blank), digit strings, and the amount parseMoney reads off the balance
\* field
AccountNames == {<<"C">>, <<"C", " ">>, <<"B">>, <<" ">>}
AccountNumbers == {"1000", "1001"}
FormBalances == {0, 1}

AccountDoc(id, name, number, balance, active) ==
  [id |-> id, name |-> name, number |-> number, balance |-> balance,
   active |-> active]

emptyForm == [name |-> <<>>, number |-> "", balance |-> 0]

\* The fields toPersist writes: the trimmed name, the number as text, the
\* balance, and active: true
toPersist(id, form) ==
  AccountDoc(id, Trim(form.name), form.number, form.balance, TRUE)

\* The page of one session: pc is the await a handler is suspended at,
\* accounts the list loaded at mount and kept by setAccounts, form and
\* editingId the values the running handler was called on
ChartPage ==
  [pc |-> "mount", accounts |-> <<>>, form |-> emptyForm, editingId |-> 0,
   nameClash |-> FALSE, target |-> 0, toast |-> ""]

\* The bookkeeping core idle
NoBooks ==
  /\ accounts = <<>>
  /\ ledgerEntries = <<>>
  /\ from = Null
  /\ to = Null
  /\ accMap = <<>>
  /\ trial = NoTrial
  /\ income = NoIncome
  /\ sheet = NoSheet
  /\ pc = "page"
  /\ raw = IdleRaw
  /\ ratios = <<>>

InitAccounts ==
  /\ db = [EmptyDb EXCEPT
             !.accounts = <<AccountDoc(1, <<"C">>, "1000", 0, TRUE)>>]
  /\ page = [name |-> "ChartOfAccounts", ops |-> 0,
             of |-> [s \in Sessions |-> ChartPage]]
  /\ heap = <<>>
  /\ returned = <<>>
  /\ NoBooks
  /\ NobodyLogsIn

\* The page of session s after a step, and the end of a handler
PageSet(s, p) == [page EXCEPT !.of[s] = p]
Idle(p, text) ==
  [p EXCEPT !.pc = "idle", !.form = emptyForm, !.nameClash = FALSE,
            !.target = 0, !.toast = text]
Toast(s, text) == PageSet(s, Idle(page.of[s], text))
Started(s, p) == [PageSet(s, p) EXCEPT !.ops = page.ops + 1]

\* useEffect at mount: the accounts of the store become the list
load(s) ==
  /\ page.of[s].pc = "mount"
  /\ page' = PageSet(s, [page.of[s] EXCEPT !.pc = "idle",
                                           !.accounts = db.accounts])
  /\ UNCHANGED <<db, bookVars, loginVars, heapVars>>

\* validateForm on the form, then the first await of ensureUnique
Validated(s, form) ==
  IF Trim(form.name) = <<>>
  THEN Toast(s, "Account name is required")
  ELSE Started(s, [page.of[s] EXCEPT !.pc = "nameQuery", !.form = form])

\* Create Account, with no edit open
handleSubmit(s) ==
  /\ page.of[s].pc = "idle" /\ page.of[s].editingId = 0
  /\ page.ops < MaxOps
  /\ \E name \in AccountNames, number \in AccountNumbers :
       page' = Validated(s, [name |-> name, number |-> number,
                             balance |-> 0])
  /\ UNCHANGED <<db, bookVars, loginVars, heapVars>>

\* ensureUnique: the query on the name as typed
nameQuery(s) ==
  /\ page.of[s].pc = "nameQuery"
  /\ page' = PageSet(s, [page.of[s] EXCEPT
       !.pc = "numberQuery",
       !.nameClash = \E i \in 1..Len(db.accounts) :
                        /\ db.accounts[i].name = page.of[s].form.name
                        /\ db.accounts[i].id # page.of[s].editingId])
  /\ UNCHANGED <<db, bookVars, loginVars, heapVars>>

\* ensureUnique: the query on the number, then the two throws
numberQuery(s) ==
  /\ page.of[s].pc = "numberQuery"
  /\ LET numClash == \E i \in 1..Len(db.accounts) :
                        /\ db.accounts[i].number = page.of[s].form.number
                        /\ db.accounts[i].id # page.of[s].editingId
     IN page' =
          IF page.of[s].nameClash
          THEN Toast(s, "Duplicate account name not allowed")
          ELSE IF numClash
          THEN Toast(s, "Duplicate account number not allowed")
          ELSE PageSet(s, [page.of[s] EXCEPT
                 !.pc = IF page.of[s].editingId = 0 THEN "addDoc"
                        ELSE "updateDoc"])
  /\ UNCHANGED <<db, bookVars, loginVars, heapVars>>

\* handleSubmit: addDoc of the new account
addDoc(s) ==
  /\ page.of[s].pc = "addDoc"
  /\ Len(db.accounts) < MaxAccounts
  /\ db' = [db EXCEPT !.accounts =
              Append(@, toPersist(Len(db.accounts) + 1, page.of[s].form))]
  /\ page' = PageSet(s, [page.of[s] EXCEPT
                           !.pc = "logCreate",
                           !.target = Len(db.accounts) + 1])
  /\ UNCHANGED <<bookVars, loginVars, heapVars>>

\* handleSubmit after logEvent: the new account is put first in the list
logCreate(s) ==
  /\ page.of[s].pc = "logCreate"
  /\ page' = PageSet(s, [Idle(page.of[s], "added") EXCEPT
       !.accounts = <<toPersist(page.of[s].target, page.of[s].form)>> \o @])
  /\ UNCHANGED <<db, bookVars, loginVars, heapVars>>

\* The row action Edit on an account of the list
startEdit(s) ==
  /\ page.of[s].pc = "idle"
  /\ \E i \in 1..Len(page.of[s].accounts) :
       page' = PageSet(s, [page.of[s] EXCEPT
                             !.editingId = page.of[s].accounts[i].id,
                             !.toast = "editing"])
  /\ UNCHANGED <<db, bookVars, loginVars, heapVars>>

\* The Cancel button of an open edit
cancelEdit(s) ==
  /\ page.of[s].pc = "idle" /\ page.of[s].editingId # 0
  /\ page' = PageSet(s, [page.of[s] EXCEPT !.editingId = 0])
  /\ UNCHANGED <<db, bookVars, loginVars, heapVars>>

\* Save Changes on the form of an open edit
saveEdit(s) ==
  /\ page.of[s].pc = "idle" /\ page.of[s].editingId # 0
  /\ page.ops < MaxOps
  /\ \E name \in AccountNames, number \in AccountNumbers,
        balance \in FormBalances :
       page' = Validated(s, [name |-> name, number |-> number,
                             balance |-> balance])
  /\ UNCHANGED <<db, bookVars, loginVars, heapVars>>

\* saveEdit: updateDoc with { ...before, ...toPersist(form) }
updateDoc(s) ==
  /\ page.of[s].pc = "updateDoc"
  /\ db' = [db EXCEPT !.accounts[page.of[s].editingId] =
              toPersist(page.of[s].editingId, page.of[s].form)]
  /\ page' = PageSet(s, [page.of[s] EXCEPT !.pc = "logUpdate"])
  /\ UNCHANGED <<bookVars, loginVars, heapVars>>

\* saveEdit after logEvent: the list takes the updated account
logUpdate(s) ==
  /\ page.of[s].pc = "logUpdate"
  /\ page' = PageSet(s, [Idle(page.of[s], "updated") EXCEPT
       !.editingId = 0,
       !.accounts = [i \in 1..Len(@) |->
                       IF @[i].id = page.of[s].editingId
                       THEN toPersist(@[i].id, page.of[s].form)
                       ELSE @[i]]])
  /\ UNCHANGED <<db, bookVars, loginVars, heapVars>>

\* The row action Deactivate on an account of the list: the balance test
\* on the listed account, the confirmation, then updateDoc is called
deactivate(s) ==
  /\ page.of[s].pc = "idle"
  /\ page.ops < MaxOps
  /\ \E i \in 1..Len(page.of[s].accounts), confirmed \in BOOLEAN :
       LET acc == page.of[s].accounts[i]
       IN page' =
            IF acc.balance > 0
            THEN Toast(s, "Accounts with balance greater than zero cannot be deactivated")
            ELSE IF ~confirmed THEN page
            ELSE Started(s, [page.of[s] EXCEPT !.pc = "deactivateDoc",
                                               !.target = acc.id])
  /\ UNCHANGED <<db, bookVars, loginVars, heapVars>>

\* deactivate: updateDoc(doc(db, "accounts", acc.id), { active: false })
deactivateDoc(s) ==
  /\ page.of[s].pc = "deactivateDoc"
  /\ db' = [db EXCEPT !.accounts[page.of[s].target].active = FALSE]
  /\ page' = PageSet(s, [page.of[s] EXCEPT !.pc = "logDeactivate"])
  /\ UNCHANGED <<bookVars, loginVars, heapVars>>

\* deactivate after logEvent: the listed account becomes inactive
logDeactivate(s) ==
  /\ page.of[s].pc = "logDeactivate"
  /\ page' = PageSet(s, [Idle(page.of[s], "deactivated") EXCEPT
       !.accounts = [i \in 1..Len(@) |->
                       IF @[i].id = page.of[s].target
                       THEN [@[i] EXCEPT !.active = FALSE]
                       ELSE @[i]]])
  /\ UNCHANGED <<db, bookVars, loginVars, heapVars>>

NextAccounts ==
  \E s \in Sessions :
    \/ load(s)
    \/ handleSubmit(s)
    \/ nameQuery(s)
    \/ numberQuery(s)
    \/ addDoc(s)
    \/ logCreate(s)
    \/ startEdit(s)
    \/ cancelEdit(s)
    \/ saveEdit(s)
    \/ updateDoc(s)
    \/ logUpdate(s)
    \/ deactivate(s)
    \/ deactivateDoc(s)
    \/ logDeactivate(s)

SpecAccounts == InitAccounts /\ [][NextAccounts]_vars

\* C22: account name and account number stay unique: after any sequence of
\* account create and edit operations, including ones interleaved from two
\* sessions, no two stored accounts share a name and no two share a number.
C22_NameAndNumberUnique ==
  \A i, j \in 1..Len(db.accounts) :
    i # j => /\ db.accounts[i].name # db.accounts[j].name
             /\ db.accounts[i].number # db.accounts[j].number

-----------------------------------------------------------------------------
(* Rejection of a journal entry: RejectJournalModal *)

MinReasonLength == 10
MaxReasonLength == 11
MaxBlanks == 1

Xs(n) == [i \in 1..n |-> "x"]
Blanks(n) == [i \in 1..n |-> " "]

\* What the manager types: words of up to MaxReasonLength letters, some
\* with a blank inside, with and without blanks around them
ReasonWords ==
  {Xs(n) : n \in 0..MaxReasonLength}
    \cup {<<"x", " ">> \o Xs(n) : n \in 1..(MaxReasonLength - 2)}
Reasons ==
  {Blanks(k) \o w \o Blanks(j) :
     k \in 0..MaxBlanks, j \in 0..MaxBlanks, w \in ReasonWords}

ReasonRequired == "Rejection reason is required."
ReasonTooShort ==
  "Please provide a more detailed reason (at least 10 characters)."
FailedToReject == "Failed to reject entry. Please try again."

\* Mutant: the length of the reason is taken as typed
reasonError_Untrimmed(reason) ==
  IF reason = <<>> THEN ReasonRequired
  ELSE IF Len(reason) < MinReasonLength THEN ReasonTooShort
  ELSE ""

\* The two validations of handleSubmit: the error they set, "" for none
reasonError(reason) ==
  IF Trim(reason) = <<>> THEN ReasonRequired
  ELSE IF Len(Trim(reason)) < MinReasonLength THEN ReasonTooShort
  ELSE ""

JournalDoc(id, status, createdBy) ==
  [id |-> id, status |-> status, createdBy |-> createdBy,
   rejectionReason |-> <<>>]

\* The modal open on entry 1: reason is the textarea, submitted the reason
\* of the handleSubmit that is running, pc the await it is suspended at
RejectModal ==
  [name |-> "RejectJournalModal", open |-> TRUE, entry |-> 1,
   reason |-> <<>>, submitted |-> <<>>, submitting |-> FALSE, error |-> "",
   pc |-> "idle"]

InitReject ==
  /\ db = [EmptyDb EXCEPT
             !.journalEntries = <<JournalDoc(1, "pending", "accountant")>>]
  /\ page = RejectModal
  /\ heap = <<>>
  /\ returned = <<>>
  /\ NoBooks
  /\ NobodyLogsIn

\* onChange of the textarea
setReason ==
  /\ page.open /\ ~page.submitting
  /\ \E r \in Reasons : page' = [page EXCEPT !.reason = r, !.error = ""]
  /\ UNCHANGED <<db, bookVars, loginVars, heapVars>>

\* handleSubmit up to its first await
rejectSubmit ==
  /\ page.open /\ page.pc = "idle"
  /\ page' = IF reasonError(page.reason) # ""
             THEN [page EXCEPT !.error = reasonError(page.reason)]
             ELSE [page EXCEPT !.submitting = TRUE, !.error = "",
                               !.submitted = page.reason,
                               !.pc = "updateDoc"]
  /\ UNCHANGED <<db, bookVars, loginVars, heapVars>>

\* catch and finally of handleSubmit
RejectFailed ==
  [page EXCEPT !.error = FailedToReject, !.submitting = FALSE,
               !.submitted = <<>>, !.pc = "idle"]

\* updateDoc of the entry: the write is made, or it is refused
rejectUpdateDoc ==
  /\ page.pc = "updateDoc"
  /\ \/ /\ db' = [db EXCEPT
                    !.journalEntries[page.entry].status = "rejected",
                    !.journalEntries[page.entry].rejectionReason =
                       Trim(page.submitted)]
        /\ page' = [page EXCEPT !.pc = "addDoc"]
     \/ /\ db' = db
        /\ page' = RejectFailed
  /\ UNCHANGED <<bookVars, loginVars, heapVars>>

\* addDoc of the notification, then onSuccess, setReason("") and onClose
rejectNotify ==
  /\ page.pc = "addDoc"
  /\ \/ /\ db' = [db EXCEPT !.notifications =
                    Append(@, [type |-> "rejection",
                               journalId |-> page.entry,
                               recipient |->
                                 db.journalEntries[page.entry].createdBy])]
        /\ page' = [page EXCEPT !.reason = <<>>, !.open = FALSE,
                                !.submitting = FALSE, !.submitted = <<>>,
                                !.pc = "idle"]
     \/ /\ db' = db
        /\ page' = RejectFailed
  /\ UNCHANGED <<bookVars, loginVars, heapVars>>

\* The close button of the header, the backdrop, or Cancel
handleClose ==
  /\ page.open
  /\ page' = [page EXCEPT !.reason = <<>>, !.error = "", !.open = FALSE]
  /\ UNCHANGED <<db, bookVars, loginVars, heapVars>>

NextReject ==
  \/ setReason
  \/ rejectSubmit
  \/ rejectUpdateDoc
  \/ rejectNotify
  \/ handleClose

SpecReject == InitReject /\ [][NextReject]_vars

\* C23: the rejection modal sets a journal entry's status to "rejected"
\* only when the trimmed rejection reason has at least 10 characters; with
\* an empty or shorter reason the submit writes nothing to the store and
\* reports a validation error.
C23_RejectionNeedsReason ==
  [][((db'.journalEntries # db.journalEntries)
        => /\ Len(Trim(page.submitted)) >= MinReasonLength
           /\ db'.journalEntries[page.entry].rejectionReason
                = Trim(page.submitted))
     /\ ((rejectSubmit /\ Len(Trim(page.reason)) < MinReasonLength)
        => /\ db' = db
           /\ page'.pc = "idle"
           /\ page'.error \in {ReasonRequired, ReasonTooShort})]_vars

C23_Witness ==
  /\ db.journalEntries[1].status = "rejected"
  /\ Len(db.journalEntries[1].rejectionReason) = MinReasonLength
  /\ page.reason # db.journalEntries[1].rejectionReason
  /\ page.pc = "addDoc"

\* C30: rejection is all-or-nothing with respect to its error report:
\* whenever the rejection submit ends with the error "Failed to reject
\* entry. Please try again.", the journal entry's stored status is
\* unchanged, and whenever an entry's status has been set to "rejected" a
\* rejection notification for its creator has been recorded.
C30_RejectionAllOrNothing ==
  page.pc = "idle" =>
    /\ (page.error = FailedToReject
          => db.journalEntries[1].status = "pending")
    /\ (db.journalEntries[1].status = "rejected"
          => \E i \in 1..Len(db.notifications) :
               /\ db.notifications[i].type = "rejection"
               /\ db.notifications[i].journalId = 1
               /\ db.notifications[i].recipient
                    = db.journalEntries[1].createdBy)

-----------------------------------------------------------------------------
(* The journal form: src/pages/JournalEntryPage.js *)

\* A side of the form has 1 to MaxLines lines (a line can be removed only
\* while there is another one), and the form is submitted at most
\* MaxSubmits times
MaxLines == 2
MaxSubmits == 2

\* moneyToNumber on the value of an amount field (the strings of the
\* model hold no comma)
moneyToNumber(v) ==
  IF v.t = "number" THEN v.n
  ELSE IF ~Truthy(v) THEN Fin(0)
  ELSE StringToNumber(v.s)

\* What the accountant fills in on a line: nothing, an account without an
\* amount, or an account with an amount
FormLines ==
  {[accountId |-> "", amount |-> Str("")],
   [accountId |-> "A", amount |-> Str("")],
   [accountId |-> "A", amount |-> Str("1")]}
FormSides == {l \in SeqsUpTo(FormLines, MaxLines) : Len(l) >= 1}

\* reduce((s, r) => s + moneyToNumber(r.amount), 0) over the first n lines
RECURSIVE sumLines(_, _)
sumLines(lines, n) ==
  IF n = 0 THEN Fin(0)
  ELSE Add(sumLines(lines, n - 1), moneyToNumber(lines[n].amount))
totalOf(lines) == sumLines(lines, Len(lines))

NeedBothSides ==
  "Each journal entry must have at least one debit and one credit."
NeedAccount == "All lines must have an account selected."
NeedAmount == "All line amounts must be greater than zero."
NeedBalance == "Total debits must equal total credits."
FailedToSubmit == "Failed to submit journal entry. Please try again."

\* The test of one line in the loop of validate: "" when it passes
lineError(r) ==
  LET amt == moneyToNumber(r.amount)
  IN IF r.accountId = "" THEN NeedAccount
     ELSE IF IsNaN(amt) \/ amt = Fin(0) \/ ~Gt(amt, Fin(0)) THEN NeedAmount
     ELSE ""

\* The loop of validate over the first n lines: the first error
RECURSIVE linesError(_, _)
linesError(lines, n) ==
  IF n = 0 THEN ""
  ELSE IF linesError(lines, n - 1) # "" THEN linesError(lines, n - 1)
  ELSE lineError(lines[n])

\* Math.abs(totalDebits - totalCredits) > 0.0001 on whole amounts
differ(a, b) ==
  LET d == Sub(a, b)
  IN (IsFinite(d) /\ d.v # 0) \/ d.k = "inf"

\* Mutant: the totals are not compared
validate_NoBalanceTest(debits, credits) ==
  IF Len(debits) = 0 \/ Len(credits) = 0 THEN NeedBothSides
  ELSE linesError(debits \o credits, Len(debits) + Len(credits))

\* validate with no file attached: the first error, "" for none
validate(debits, credits) ==
  IF Len(debits) = 0 \/ Len(credits) = 0 THEN NeedBothSides
  ELSE IF linesError(debits \o credits, Len(debits) + Len(credits)) # ""
    THEN linesError(debits \o credits, Len(debits) + Len(credits))
  ELSE IF differ(totalOf(debits), totalOf(credits)) THEN NeedBalance
  ELSE ""

\* debitLines and creditLines of handleSubmit
linesOf(rows, side) ==
  [i \in 1..Len(rows) |->
     [accountId |-> rows[i].accountId,
      amount |-> moneyToNumber(rows[i].amount), side |-> side]]

\* The document handleSubmit adds (the totals are whole, so rounding them
\* to two decimals leaves them as they are)
journalEntryOf(debits, credits) ==
  [lines |-> linesOf(debits, "debit") \o linesOf(credits, "credit"),
   totalDebits |-> totalOf(debits), totalCredits |-> totalOf(credits),
   status |-> "pending"]

\* The page: debits and credits are the lines the running handleSubmit
\* was called on, pc the await it is suspended at
JournalPage ==
  [name |-> "JournalEntryPage", debits |-> <<>>, credits |-> <<>>,
   error |-> "", submitting |-> FALSE, submits |-> 0, pc |-> "idle"]

InitJournal ==
  /\ db = EmptyDb
  /\ page = JournalPage
  /\ heap = <<>>
  /\ returned = <<>>
  /\ NoBooks
  /\ NobodyLogsIn

\* handleSubmit up to its first await
submitJournal ==
  /\ page.pc = "idle"
  /\ page.submits < MaxSubmits
  /\ \E debits \in FormSides, credits \in FormSides :
       page' = IF validate(debits, credits) # ""
               THEN [page EXCEPT !.debits = debits, !.credits = credits,
                                 !.error = validate(debits, credits),
                                 !.submits = @ + 1, !.pc = "logError"]
               ELSE [page EXCEPT !.debits = debits, !.credits = credits,
                                 !.error = "", !.submitting = TRUE,
                                 !.submits = @ + 1, !.pc = "addEntry"]
  /\ UNCHANGED <<db, bookVars, loginVars, heapVars>>

\* addDoc on errorMessages after a failed validation: made or refused,
\* and the handler returns
logValidationError ==
  /\ page.pc = "logError"
  /\ \/ db' = [db EXCEPT !.errorMessages =
                 Append(@, [code |-> "JE_VALIDATION",
                            message |-> page.error])]
     \/ db' = db
  /\ page' = [page EXCEPT !.debits = <<>>, !.credits = <<>>, !.pc = "idle"]
  /\ UNCHANGED <<bookVars, loginVars, heapVars>>

\* catch and finally of handleSubmit
SubmitFailed ==
  [page EXCEPT !.error = FailedToSubmit, !.submitting = FALSE,
               !.debits = <<>>, !.credits = <<>>, !.pc = "idle"]

\* addDoc on journalEntries: made or refused
addJournalEntry ==
  /\ page.pc = "addEntry"
  /\ \/ /\ db' = [db EXCEPT !.journalEntries =
                    Append(@, journalEntryOf(page.debits, page.credits))]
        /\ page' = [page EXCEPT !.pc = "notify"]
     \/ /\ db' = db
        /\ page' = SubmitFailed
  /\ UNCHANGED <<bookVars, loginVars, heapVars>>

\* addDoc of the manager's notification, then resetForm and the reload
notifyManager ==
  /\ page.pc = "notify"
  /\ \/ /\ db' = [db EXCEPT !.notifications =
                    Append(@, [type |-> "journal_submitted",
                               journalId |-> Len(db.journalEntries),
                               forRole |-> "manager"])]
        /\ page' = [page EXCEPT !.submitting = FALSE, !.debits = <<>>,
                                !.credits = <<>>, !.pc = "idle"]
     \/ /\ db' = db
        /\ page' = SubmitFailed
  /\ UNCHANGED <<bookVars, loginVars, heapVars>>

NextJournal ==
  \/ submitJournal
  \/ logValidationError
  \/ addJournalEntry
  \/ notifyManager

SpecJournal == InitJournal /\ [][NextJournal]_vars

\* The lines of one side of a stored entry, and the sum of their amounts
SideLines(doc, side) ==
  {i \in 1..Len(doc.lines) : doc.lines[i].side = side}
RECURSIVE SumSide(_, _, _)
SumSide(doc, side, n) ==
  IF n = 0 THEN 0
  ELSE SumSide(doc, side, n - 1)
         + (IF doc.lines[n].side = side THEN doc.lines[n].amount.v ELSE 0)

\* A stored entry as the journal form has to create it
WellFormedEntry(doc) ==
  /\ doc.status = "pending"
  /\ SideLines(doc, "debit") # {}
  /\ SideLines(doc, "credit") # {}
  /\ \A i \in 1..Len(doc.lines) :
       /\ doc.lines[i].accountId # ""
       /\ IsFinite(doc.lines[i].amount)
       /\ doc.lines[i].amount.v > 0
  /\ SumSide(doc, "debit", Len(doc.lines))
       = SumSide(doc, "credit", Len(doc.lines))
  /\ doc.totalDebits = doc.totalCredits

\* A form that passes: both sides filled, an account and an amount above
\* zero on every line, equal totals
FormPasses(debits, credits) ==
  /\ debits # <<>> /\ credits # <<>>
  /\ \A r \in {debits[i] : i \in 1..Len(debits)}
            \cup {credits[i] : i \in 1..Len(credits)} :
       /\ r.accountId # ""
       /\ r.amount \in {Str("1"), Str("2"), Str("3")}
  /\ totalOf(debits) = totalOf(credits)

\* C28: every journal entry created by the journal form has status
\* "pending", at least one debit line and at least one credit line, an
\* account and an amount greater than zero on every line, and total debits
\* equal to total credits; when validation fails no journal entry and no
\* manager notification is created.
C28_JournalEntriesWellFormed ==
  [][(\A i \in 1..Len(db'.journalEntries) :
        WellFormedEntry(db'.journalEntries[i]))
     /\ ((page.pc = "idle" /\ page'.pc # "idle"
            /\ ~FormPasses(page'.debits, page'.credits))
           => page'.pc = "logError" /\ page'.error # "" /\ db' = db)
     /\ ((page.pc = "logError" \/ page'.pc = "logError")
           => /\ db'.journalEntries = db.journalEntries
              /\ db'.notifications = db.notifications)]_vars

C28_Witness ==
  /\ Len(db.journalEntries) = 1
  /\ Len(db.journalEntries[1].lines) = 4
  /\ Len(db.notifications) = 1
  /\ Len(db.errorMessages) = 1
  /\ db.errorMessages[1].message = NeedBalance

====
